---- MODULE Spec2Model ----
(***************************************************************************)
(* Programming Bot 2025: a state-machine model of the authentication       *)
(* system (auth_system.py), the project store of the bot engine            *)
(* (core/bot_engine.py), the Flask request handlers (main.py) and the      *)
(* code-review reply parser (api_routes.py).                               *)
(*                                                                         *)
(* Each subsystem has its own specification (SpecAuth, SpecProjects,       *)
(* SpecWeb, SpecParse, SpecRecovery, SpecEngine, SpecRegistry,             *)
(* SpecConfig, SpecMigrate, SpecAccounts, SpecHistory, SpecShutdown,       *)
(* SpecSessions, SpecSeed); the variables of the other subsystems stay at  *)
(* their initial values under it.                                          *)
(* SpecAccounts covers registration and the start of several instances     *)
(* over one auth database, SpecHistory the timestamps of the conversation  *)
(* rows of session_storage.py, SpecShutdown the cleanup thread and the     *)
(* shutdown paths of session_manager.py, SpecSessions the session map of   *)
(* session_manager.py, its file and its backups, SpecConfig the global     *)
(* SmartConfig of config.py over the model registry, and SpecSeed          *)
(* get_user_projects calls of core/bot_engine.py that run together.        *)
(*                                                                         *)
(* What is left out: columns and session keys that no modelled operation   *)
(* reads (last_login, ip_address, created_at, the recovery metadata of a   *)
(* work session), the text of messages and LLM replies, the order of a     *)
(* project list, and database errors. Random tokens and hashed ids are     *)
(* fresh numbers. The session manager that main.py imports                 *)
(* (get_session_manager) is not part of the source tree: its operations    *)
(* follow the session-manager section of the specification, over the       *)
(* tables of session_storage.py.                                           *)
(***************************************************************************)
EXTENDS Integers, Sequences, FiniteSets, TLC

VARIABLES
    \* ---- auth_system.py: the auth database and the host clock ----
    users,          \* table users, in rowid order
    user_sessions,  \* table user_sessions, in rowid order; the token is the row index
    now,            \* the UTC clock, in hours (what CURRENT_TIMESTAMP reads)
    tz,             \* the host's offset from UTC, in hours (datetime.now() reads now + tz)
    ticks,          \* how often the clock has advanced (bounds the run)
    loggedOut,      \* tokens logout_user has run on (observer)
    authLast,       \* the last auth call, its result and, for a login attempt, how many
                    \* failed attempts for the same username came right before it at the
                    \* same instant (observer)
    \* ---- api_routes.py: the code-review reply parser ----
    reply,          \* the LLM reply handed to parse_code_review_response, a token sequence
    parsed,         \* the results parsed from it, <<>> before the call
    \* ---- core/bot_engine.py: the project store ----
    projects,       \* table projects, a set of rows
    next_id,        \* how many project ids have been drawn (ids are 1, 2, ...)
    db_clock,       \* CURRENT_TIMESTAMP of the bot database: it advances with each UPDATE
    demo_seeded,    \* of each user: how many demo projects get_user_projects has
                    \* created for them (observer)
    projLast,       \* the last project call and what it returned (observer)
    \* ---- main.py: the Flask application and the stores behind it ----
    flask,          \* the Flask session (a signed cookie) of each browser
    session_manager,        \* TRUE if load_session_manager found a session manager
    work_sessions,          \* session_storage table user_sessions; the session id is the row index
    conversation_history,   \* session_storage table conversation_history, in insertion order
    code_reviews,           \* session_storage table code_reviews, in insertion order
    chat_history,           \* bot database table chat_history, in insertion order
    webLast,        \* the last request: endpoint, browser, whether 'user' was in its
                    \* session, the answer and the backend operations invoked (observer)
    \* ---- core/bot_engine.py: the ClaudeAPIEngine object ----
    client,         \* TRUE if self.client is set (an API key was given)
    model,          \* self.model
    fallback_model, \* self.fallback_model, None if not configured
    message_count,  \* self.message_count
    engineLast,     \* the last call of the engine: its arguments, the LLM calls it
                    \* made and what came back to the caller (observer)
    \* ---- config.py: the ModelRegistry object ----
    config,         \* self.config: current_model, known_models, model_preferences
    config_file,    \* model_config.json, as last saved
    today,          \* the date, in days
    last_check,     \* .last_model_check: the date of the last check, 0 if missing
    checks,         \* how many update checks have run
    registryLast,   \* the last call of the registry and its result (observer)
    \* ---- migrate.py: the chat_history table of bot_data.db ----
    table_info,     \* PRAGMA table_info(chat_history): the column names, in order
    table_rows,     \* the rows, each with its values of the later columns
    migrations,     \* how many times migrate_database has run
    migrateLast,    \* the last run and whether it raised (observer)
    \* ---- auth_system.py: AuthenticationSystem instances starting up ----
    boot,           \* of each instance: where it is in init_database, and the admin
                    \* count it has read
    \* ---- config.py: SmartConfig ----
    ENABLE_USER_REGISTRATION,   \* the feature flag, read from the environment
    CLAUDE_MODEL,   \* SmartConfig.CLAUDE_MODEL of the global instance, NoModel before
                    \* get_config has built it
    \* ---- session_storage.py: conversation_history with its timestamp column ----
    message_log,    \* the rows in rowid order: session, type, timestamp
    storage_clock,  \* CURRENT_TIMESTAMP of the session database, in seconds
    historyLast,    \* the last get_conversation_history call and its result (observer)
    \* ---- session_manager.py: the cleanup thread and the shutdown paths ----
    _shutdown_requested,    \* SessionManager._shutdown_requested
    cleanup_running,        \* SessionManager.cleanup_running
    shutdown_pc,            \* where each caller of the shutdown stands
    final_saves,            \* how often _safe_shutdown has done its final save
    cleanup_pc,             \* where the cleanup thread stands in _cleanup_loop
    cleanup_i,              \* iterations of the waiting loop done so far
    retry_left,             \* seconds left of the sleep after a failed sweep
    slept_after_request,    \* seconds the thread slept since the shutdown request (observer)
    \* ---- session_manager.py: the session map and the session file ----
    sessions,       \* SessionManager.sessions: session id -> session data
    session_file,   \* data/sessions.json: whether it exists and the map it holds
    backups,        \* data/sessions.json.backup1..3
    written,        \* the maps written by the saves so far, in order (observer)
    wall,           \* datetime.now() of the host, in hours
    next_session,   \* how many session ids have been drawn (uuid4 gives 1, 2, ...)
    pass,           \* the cleanup pass of the sweep thread: where it stands in
                    \* _cleanup_expired_sessions and its local variables
    sessionsLast,   \* the last lookup and what it returned (observer)
    \* ---- core/bot_engine.py: get_user_projects calls under way ----
    listing         \* of each caller: where its get_user_projects call stands, for which
                    \* user, and the rows its SELECT found

bootVars == <<boot>>
settingsVars == <<ENABLE_USER_REGISTRATION, CLAUDE_MODEL>>
historyVars == <<message_log, storage_clock, historyLast>>
shutdownVars == <<_shutdown_requested, cleanup_running, shutdown_pc, final_saves, cleanup_pc, cleanup_i, retry_left, slept_after_request>>
sessionsVars == <<sessions, session_file, backups, written, wall, next_session, pass, sessionsLast>>
seedVars == <<listing>>
authVars  == <<users, user_sessions, now, tz, ticks, loggedOut, authLast>>
parseVars == <<reply, parsed>>
projVars  == <<projects, next_id, db_clock, demo_seeded, projLast>>
webVars   == <<flask, session_manager, work_sessions, conversation_history, code_reviews,
               chat_history, webLast>>
engineVars == <<client, model, fallback_model, message_count, engineLast>>
migrateVars == <<table_info, table_rows, migrations, migrateLast>>
registryVars == <<config, config_file, today, last_check, checks, registryLast>>
vars      == <<authVars, parseVars, projVars, webVars, engineVars, registryVars, migrateVars, bootVars, settingsVars, historyVars, shutdownVars, sessionsVars, seedVars>>

None == "None"

(***************************************************************************)
(*                          auth_system.py                                 *)
(***************************************************************************)

\* Bounds of the model.
MaxSessions == 2    \* rows of user_sessions
MaxTicks    == 2    \* clock advances per run
MaxFailed   == 6    \* failed attempts counted per username and instant

\* timedelta(days=7) in login_user, in hours.
SessionLifetime == 168

\* The host's possible offsets from UTC, in hours.
TzOffsets == {0, 2}
\* The clock advances by an hour or by a whole session lifetime.
TickSteps == {1, SessionLifetime}

Usernames == {"admin", "nobody"}
Passwords == {"admin123", "wrong"}
LoginNames == Usernames \cup {"admin@localhost"}

\* bcrypt: a hash is not the password, and checkpw recomputes it.
_hash_password(password) == <<"bcrypt", password>>
_verify_password(password, password_hash) == password_hash = _hash_password(password)

\* _create_default_admin: the row inserted when no admin exists.
DefaultAdmin ==
    [id |-> 1, username |-> "admin", email |-> "admin@localhost",
     password_hash |-> _hash_password("admin123"), display_name |-> "Administrator",
     is_admin |-> TRUE, is_active |-> TRUE]

\* datetime.now(): the host's local wall clock.
LocalNow == now + tz

\* SELECT ... FROM users WHERE username = ? OR email = ?; fetchone(): the first row.
\* The result is the row's id, or 0 when no row matches.
FindUser(name) ==
    LET hits == {i \in 1..Len(users) : users[i].username = name \/ users[i].email = name}
    IN  IF hits = {} THEN 0
        ELSE CHOOSE i \in hits : \A j \in hits : i <= j

\* The outcome of the credential check shared by authenticate_user and login_user.
CheckCredentials(name, password) ==
    LET u == FindUser(name)
    IN  IF u = 0 THEN "User nicht gefunden"
        ELSE IF ~users[u].is_active THEN "Account deaktiviert"
        ELSE IF ~_verify_password(password, users[u].password_hash) THEN "Falsches Passwort"
        ELSE "ok"

AuthRecord(op, name, token, result, prior) ==
    [op |-> op, username |-> name, token |-> token, result |-> result, prior |-> prior]

\* Failed attempts for `name` made one after the other right before this call.
FailedFor(name) ==
    IF /\ authLast.op \in {"authenticate", "login"}
       /\ authLast.username = name
       /\ authLast.result \notin {"success"} \cup Usernames
    THEN authLast.prior + 1
    ELSE 0

\* authenticate_user(username, password): the user dict, or None.
AuthenticateUser(name, password) ==
    LET check == CheckCredentials(name, password)
    IN  /\ FailedFor(name) < MaxFailed
        /\ authLast' = AuthRecord("authenticate", name, 0,
                                   IF check = "ok" THEN users[FindUser(name)].username ELSE None,
                                   FailedFor(name))
        /\ UNCHANGED <<users, user_sessions, now, tz, ticks, loggedOut>>

\* login_user(username, password): credentials, then a new row of user_sessions.
LoginSuccess(name, password) ==
    /\ Len(user_sessions) < MaxSessions
    /\ user_sessions' = Append(user_sessions,
           [user_id |-> users[FindUser(name)].id, expires_at |-> LocalNow + SessionLifetime,
            is_active |-> TRUE])
    /\ authLast' = AuthRecord("login", name, Len(user_sessions) + 1, "success", FailedFor(name))

LoginUser(name, password) ==
    LET check == CheckCredentials(name, password)
    IN  /\ FailedFor(name) < MaxFailed
        /\ IF check = "ok"
           THEN LoginSuccess(name, password)
           ELSE /\ authLast' = AuthRecord("login", name, 0, check, FailedFor(name))
                /\ UNCHANGED user_sessions
        /\ UNCHANGED <<users, now, tz, ticks, loggedOut>>

\* validate_session without the is_active test of the session row.
validate_session_mutant(token) ==
    IF /\ token \in 1..Len(user_sessions)
       /\ user_sessions[token].expires_at > now
       /\ users[user_sessions[token].user_id].is_active
    THEN users[user_sessions[token].user_id].username
    ELSE None

\* validate_session(token): the user of the joined row, or None.
\*   WHERE s.session_token = ? AND s.expires_at > CURRENT_TIMESTAMP
\*     AND s.is_active = TRUE AND u.is_active = TRUE
validate_session(token) ==
    IF /\ token \in 1..Len(user_sessions)
       /\ user_sessions[token].expires_at > now
       /\ user_sessions[token].is_active
       /\ users[user_sessions[token].user_id].is_active
    THEN users[user_sessions[token].user_id].username
    ELSE None

ValidateSession(token) ==
    /\ authLast' = AuthRecord("validate", None, token, validate_session(token), 0)
    /\ UNCHANGED <<users, user_sessions, now, tz, ticks, loggedOut>>

\* logout_user(token): UPDATE user_sessions SET is_active = FALSE WHERE session_token = ?
logout_rows(token) ==
    [t \in 1..Len(user_sessions) |->
        IF t = token THEN [user_sessions[t] EXCEPT !.is_active = FALSE]
        ELSE user_sessions[t]]

LogoutUser(token) ==
    /\ user_sessions' = logout_rows(token)
    /\ loggedOut' = loggedOut \cup {token}
    /\ authLast' = AuthRecord("logout", None, token, token \in 1..Len(user_sessions),
                               IF token \in loggedOut THEN 1 ELSE 0)
    /\ UNCHANGED <<users, now, tz, ticks>>

\* Time passes: attempts made before are no longer at the current instant.
Tick(d) ==
    /\ ticks < MaxTicks
    /\ now' = now + d
    /\ ticks' = ticks + 1
    /\ authLast' = AuthRecord("tick", None, 0, None, 0)
    /\ UNCHANGED <<users, user_sessions, tz, loggedOut>>

AuthInit ==
    /\ users = <<DefaultAdmin>>
    /\ user_sessions = <<>>
    /\ now = 0
    /\ tz \in TzOffsets
    /\ ticks = 0
    /\ loggedOut = {}
    /\ authLast = AuthRecord("init", None, 0, None, 0)

AuthIdle ==
    /\ users = <<DefaultAdmin>>
    /\ user_sessions = <<>>
    /\ now = 0
    /\ tz = 0
    /\ ticks = 0
    /\ loggedOut = {}
    /\ authLast = AuthRecord("init", None, 0, None, 0)

(***************************************************************************)
(*                 api_routes.py: parse_code_review_response               *)
(***************************************************************************)

MaxReplyLen == 5    \* tokens of a reply

\* A reply is a sequence of tokens: the marker "SCORE:" and single characters.
Alphabet == {"SCORE:", "0", "1", "5", "-", "x", " ", "\n"}
Replies == UNION {[1..n -> Alphabet] : n \in 0..MaxReplyLen}

DigitChars == <<"0", "1", "2", "3", "4", "5", "6", "7", "8", "9">>
DigitValue == [c \in {DigitChars[i] : i \in 1..10} |-> CHOOSE v \in 0..9 : DigitChars[v + 1] = c]
Min(a, b) == IF a <= b THEN a ELSE b
Max(a, b) == IF a >= b THEN a ELSE b

\* The first position of `tok` in `text`, or Len(text) + 1.
Find(text, tok) ==
    LET hits == {i \in 1..Len(text) : text[i] = tok}
    IN  IF hits = {} THEN Len(text) + 1 ELSE CHOOSE i \in hits : \A j \in hits : i <= j

\* text.split(tok)[0]
Before(text, tok) == SubSeq(text, 1, Find(text, tok) - 1)
\* The text after the first `tok`.
After(text, tok) == SubSeq(text, Find(text, tok) + 1, Len(text))

\* str.strip(): leading and trailing whitespace removed.
Strip(text) ==
    LET keep == {i \in 1..Len(text) : text[i] \notin {" ", "\n"}}
    IN  IF keep = {} THEN <<>>
        ELSE SubSeq(text, CHOOSE i \in keep : \A j \in keep : i <= j,
                          CHOOSE i \in keep : \A j \in keep : i >= j)

\* ai_response.split("SCORE:")[1].split("\n")[0].strip()
ScoreText(text) == Strip(Before(Before(After(text, "SCORE:"), "SCORE:"), "\n"))

\* ''.join(filter(str.isdigit, score_text))[:2]
IsDigit(c) == c \in DOMAIN DigitValue
ScoreDigits(text) ==
    LET digits == SelectSeq(ScoreText(text), IsDigit)
    IN  SubSeq(digits, 1, Min(2, Len(digits)))

\* int(): the caller guards the empty string, on which int() raises ValueError.
IntOf(digits) ==
    IF Len(digits) = 1 THEN DigitValue[digits[1]]
    ELSE 10 * DigitValue[digits[1]] + DigitValue[digits[2]]

DefaultScore == 75

\* The score of parse_code_review_response: the default unless "SCORE:" is in the
\* reply and its line holds a digit; then the clamped number.
ExtractScore(text) ==
    IF Find(text, "SCORE:") > Len(text) THEN DefaultScore
    ELSE IF ScoreDigits(text) = <<>> THEN DefaultScore
    ELSE Max(0, Min(100, IntOf(ScoreDigits(text))))

\* ---- the sections of a reply ----

\* A section marker is one token, as "SCORE:" is.
NextMarkers == {"VORSCHLAEGE:", "PROBLEME:", "STAERKEN:", "SCORE:"}

\* text.find("\n\n", start): the first blank line at or after `start`, or 0.
FindBlankLine(text, start) ==
    LET hits == {i \in start..(Len(text) - 1) : text[i] = "\n" /\ text[i + 1] = "\n"}
    IN  IF hits = {} THEN 0 ELSE CHOOSE i \in hits : \A j \in hits : i <= j

\* extract_section(text, marker): the text after the marker, up to the first blank
\* line, or else up to the next of NextMarkers, stripped.
extract_section(text, marker) ==
    IF Find(text, marker) > Len(text) THEN <<>>
    ELSE LET start == Find(text, marker) + 1
             blank == FindBlankLine(text, start)
             next  == {i \in start..Len(text) : text[i] \in NextMarkers}
             end   == IF blank # 0 THEN blank
                      ELSE IF next = {} THEN Len(text) + 1
                      ELSE CHOOSE i \in next : \A j \in next : i <= j
         IN  Strip(SubSeq(text, start, end - 1))

\* str.split("\n")
RECURSIVE SplitLines(_)
SplitLines(text) ==
    IF Find(text, "\n") > Len(text) THEN <<text>>
    ELSE <<Before(text, "\n")>> \o SplitLines(After(text, "\n"))

\* The list markers extract_list_section removes: '- ', the bullet, '* ', '1. ' to '5. '.
Prefixes ==
    {<<"-", " ">>, <<"bullet", " ">>, <<"*", " ">>} \cup {<<DigitChars[n + 1], ".", " ">> : n \in 1..5}

StartsWith(line, prefix) ==
    Len(line) >= Len(prefix) /\ SubSeq(line, 1, Len(prefix)) = prefix

\* The first prefix the line starts with is cut off, and the rest stripped.
RemovePrefix(line) ==
    IF \E prefix \in Prefixes : StartsWith(line, prefix)
    THEN LET prefix == CHOOSE q \in Prefixes : StartsWith(line, q)
         IN  Strip(SubSeq(line, Len(prefix) + 1, Len(line)))
    ELSE line

\* The entries of the lines: stripped, without their list marker; empty ones dropped.
RECURSIVE ListItems(_)
ListItems(lines) ==
    IF lines = <<>> THEN <<>>
    ELSE LET line == Strip(Head(lines))
             item == IF line = <<>> THEN <<>> ELSE RemovePrefix(line)
         IN  (IF item = <<>> THEN <<>> ELSE <<item>>) \o ListItems(Tail(lines))

\* extract_list_section(text, marker)
extract_list_section(text, marker) ==
    IF extract_section(text, marker) = <<>> THEN <<>>
    ELSE ListItems(SplitLines(extract_section(text, marker)))

\* seq[:n]
Take(seq, n) == SubSeq(seq, 1, Min(n, Len(seq)))

\* The CodeReviewSuggestion made of the i-th suggestion.
Suggestion(i, description, score) ==
    [type |-> "improvement", severity |-> IF score < 70 THEN "medium" ELSE "low",
     title |-> i, description |-> description]

\* The dict parse_code_review_response returns (without the language passed through).
ReviewOf(text) ==
    LET score       == ExtractScore(text)
        analysis    == extract_section(text, "ANALYSE:")
        suggestions == Take(extract_list_section(text, "VORSCHLAEGE:"), 5)
    IN  [score |-> score,
         analysis |-> IF analysis # <<>> THEN analysis ELSE Take(text, 500),
         suggestions |-> [i \in 1..Len(suggestions) |-> Suggestion(i, suggestions[i], score)],
         issues_found |-> Take(extract_list_section(text, "PROBLEME:"), 10),
         strengths |-> Take(extract_list_section(text, "STAERKEN:"), 5)]

ParseCodeReviewResponse ==
    /\ parsed = <<>>
    /\ parsed' = <<ReviewOf(reply)>>
    /\ UNCHANGED reply

\* ---- the replies with a score of 87 and the four sections ----

MaxSuggestionLines == 6     \* lines under VORSCHLAEGE:
MaxIssueLines      == 11    \* lines under PROBLEME:
MaxStrengthLines   == 6     \* lines under STAERKEN:

\* How the lines of a list are marked.
ListStyles == {"dash", "star", "numbered", "plain"}

\* str(n), for n < 100
Decimal(n) ==
    IF n < 10 THEN <<DigitChars[n + 1]>>
    ELSE <<DigitChars[(n \div 10) + 1], DigitChars[(n % 10) + 1]>>

\* The i-th line of a list in the style.
ListLine(style, i) ==
    CASE style = "dash"     -> <<"-", " ", "x">>
      [] style = "star"     -> <<"*", " ", "x">>
      [] style = "numbered" -> Decimal(i) \o <<".", " ", "x">>
      [] style = "plain"    -> <<"x">>

RECURSIVE ListLines(_, _)
ListLines(style, n) ==
    IF n = 0 THEN <<>> ELSE ListLines(style, n - 1) \o <<"\n">> \o ListLine(style, n)

\* A marker on a line of its own, and n lines under it.
ListSection(marker, style, n) == <<marker>> \o ListLines(style, n)

\* Sections follow each other on the next line or after a blank line.
Separators == {<<"\n">>, <<"\n", "\n">>}

ReviewReply(sep, s, i, t) ==
    <<"SCORE:", " ", "8", "7", "\n", "ANALYSE:", " ", "x">> \o sep
        \o ListSection("VORSCHLAEGE:", s.style, s.n) \o sep
        \o ListSection("PROBLEME:", i.style, i.n) \o sep
        \o ListSection("STAERKEN:", t.style, t.n)

ReviewReplies ==
    {ReviewReply(sep, s, i, t) :
        sep \in Separators,
        s \in [style : ListStyles, n : 1..MaxSuggestionLines],
        i \in [style : ListStyles, n : 1..MaxIssueLines],
        t \in [style : ListStyles, n : 1..MaxStrengthLines]}

ParseInit == reply \in Replies \cup ReviewReplies /\ parsed = <<>>
ParseIdle == reply = <<>> /\ parsed = <<>>

(***************************************************************************)
(*                 core/bot_engine.py: project management                  *)
(***************************************************************************)

MaxProjects == 2    \* project ids drawn per run
MaxUpdates  == 1    \* UPDATE statements that match a row, per run

ProjectUsers == {"alice", "bob"}
\* projects.user_id is a nullable column.
NullUser == "NULL"
DemoName == "Python Calculator Demo"
DemoDescription == "Ein einfacher Taschenrechner zum Ausprobieren"
ProjectNames == {DemoName, "X"}

NotFoundOrForbidden == "Projekt nicht gefunden oder keine Berechtigung"
NoUpdateFields == "Keine Update-Felder angegeben"

\* **kwargs of update_project: a field that is not supplied is Absent. The calls
\* tried supply the name or not, the three other fields together or not, and a
\* keyword that is none of the four (the column data) or not.
Absent == "absent"
Kwargs ==
    {k \in [name : {"X", Absent}, description : {"edited", Absent},
            language : {"javascript", Absent}, status : {"archived", Absent},
            data : {"{}", Absent}] :
        /\ k.description = Absent <=> k.language = Absent
        /\ k.language = Absent <=> k.status = Absent}
UpdateFields(kwargs) ==
    {f \in {"name", "description", "language", "status"} : kwargs[f] # Absent}
NoKwargs == [name |-> Absent, description |-> Absent, language |-> Absent, status |-> Absent,
             data |-> Absent]

\* The row create_project inserts. Its id is a hash of user, name and the
\* microsecond clock, fresh on every call: here, the next number. The column
\* data holds the JSON text of the project as created: here, its name.
NewProject(user_id, name, description, language) ==
    [id |-> next_id, name |-> name, description |-> description, language |-> language,
     user_id |-> user_id, status |-> "active", updated_at |-> db_clock, data |-> name]

\* The dict the engine returns for a row: every column but user_id and data.
ProjectDict(row) ==
    [id |-> row.id, name |-> row.name, description |-> row.description,
     language |-> row.language, status |-> row.status, updated_at |-> row.updated_at]

ProjRecord(op, user_id, pid, kwargs, result, returned, seeded, after_seed) ==
    [op |-> op, user_id |-> user_id, pid |-> pid, kwargs |-> kwargs, result |-> result,
     returned |-> returned, seeded |-> seeded, after_seed |-> after_seed]

\* WHERE user_id = ? OR user_id IS NULL, without the filter.
VisibleToAnyone(user_id) == projects
\* WHERE user_id = ? OR user_id IS NULL
VisibleTo(user_id) == {row \in projects : row.user_id = user_id \/ row.user_id = NullUser}

\* A demo whatever was found.
AlwaysDemo(found) == TRUE
\* if not projects: create the demo project
NeedsDemo(found) == found = {}

\* get_user_projects(user_id): the user's rows; for a user with none, the demo
\* project is created and returned. (The ORDER BY of the list is not modelled.)
GetUserProjects(user_id) ==
    LET found == VisibleTo(user_id)
        demo  == NewProject(user_id, DemoName, DemoDescription, "python")
        after == projLast.op = "list" /\ projLast.user_id = user_id /\ projLast.seeded
    IN  IF NeedsDemo(found)
        THEN /\ next_id <= MaxProjects
             /\ projects' = projects \cup {demo}
             /\ next_id' = next_id + 1
             /\ projLast' = ProjRecord("list", user_id, 0, NoKwargs, "success",
                                       {ProjectDict(demo)}, TRUE, after)
             /\ demo_seeded' = [demo_seeded EXCEPT ![user_id] = @ + 1]
             /\ UNCHANGED db_clock
        ELSE /\ projLast' = ProjRecord("list", user_id, 0, NoKwargs, "success",
                                       {ProjectDict(row) : row \in found}, FALSE, after)
             /\ UNCHANGED <<projects, next_id, db_clock, demo_seeded>>

\* create_project(user_id, name, description, language): INSERT, no lookup before it.
CreateProject(user_id, name) ==
    LET row == NewProject(user_id, name, "", "python")
    IN  /\ next_id <= MaxProjects
        /\ projects' = projects \cup {row}
        /\ next_id' = next_id + 1
        /\ projLast' = ProjRecord("create", user_id, row.id, NoKwargs, "success",
                                  {}, FALSE, FALSE)
        /\ UNCHANGED <<db_clock, demo_seeded>>

\* WHERE id = ?, without the owner.
RowsOfAnyOwner(pid, user_id) == {row \in projects : row.id = pid}
\* WHERE id = ? AND user_id = ?
RowsOf(pid, user_id) == {row \in projects : row.id = pid /\ row.user_id = user_id}

\* SET column = ? for every keyword that names a column.
UpdatedAnyColumn(row, kwargs) ==
    [f \in DOMAIN row |->
        IF f \in DOMAIN kwargs /\ kwargs[f] # Absent THEN kwargs[f]
        ELSE IF f = "updated_at" THEN db_clock + 1
        ELSE row[f]]
\* SET field = ? for the supplied fields, updated_at = CURRENT_TIMESTAMP.
Updated(row, kwargs) ==
    [f \in DOMAIN row |->
        IF f \in UpdateFields(kwargs) THEN kwargs[f]
        ELSE IF f = "updated_at" THEN db_clock + 1
        ELSE row[f]]

\* update_project(project_id, user_id, **kwargs)
UpdateProject(pid, user_id, kwargs) ==
    LET hit == RowsOf(pid, user_id)
    IN  IF UpdateFields(kwargs) = {}
        THEN /\ projLast' = ProjRecord("update", user_id, pid, kwargs, NoUpdateFields,
                                       {}, FALSE, FALSE)
             /\ UNCHANGED <<projects, next_id, db_clock, demo_seeded>>
        ELSE IF hit = {}
        THEN /\ projLast' = ProjRecord("update", user_id, pid, kwargs, NotFoundOrForbidden,
                                       {}, FALSE, FALSE)
             /\ UNCHANGED <<projects, next_id, db_clock, demo_seeded>>
        ELSE /\ db_clock < MaxUpdates
             /\ projects' = (projects \ hit) \cup {Updated(row, kwargs) : row \in hit}
             /\ db_clock' = db_clock + 1
             /\ projLast' = ProjRecord("update", user_id, pid, kwargs, "success",
                                       {}, FALSE, FALSE)
             /\ UNCHANGED <<next_id, demo_seeded>>

\* delete_project(project_id, user_id)
DeleteProject(pid, user_id) ==
    LET hit == RowsOf(pid, user_id)
    IN  IF hit = {}
        THEN /\ projLast' = ProjRecord("delete", user_id, pid, NoKwargs, NotFoundOrForbidden,
                                       {}, FALSE, FALSE)
             /\ UNCHANGED <<projects, next_id, db_clock, demo_seeded>>
        ELSE /\ projects' = projects \ hit
             /\ projLast' = ProjRecord("delete", user_id, pid, NoKwargs, "success",
                                       {}, FALSE, FALSE)
             /\ UNCHANGED <<next_id, db_clock, demo_seeded>>

ProjIdle ==
    /\ projects = {}
    /\ next_id = 1
    /\ db_clock = 0
    /\ demo_seeded = [u \in ProjectUsers |-> 0]
    /\ projLast = ProjRecord("init", NullUser, 0, NoKwargs, "success", {}, FALSE, FALSE)

(***************************************************************************)
(*        main.py: the Flask handlers, and the session manager they use    *)
(***************************************************************************)

MaxWorkSessions == 2    \* rows of the work-session table
MaxMessages     == 5    \* rows of conversation_history
MaxReviews      == 1    \* rows of code_reviews
MaxChats        == 1    \* rows of chat_history
MaxRows         == 6    \* rows of these tables and of projects, together

\* There is room for n more rows.
Room(n) ==
    Len(work_sessions) + Len(conversation_history) + Len(code_reviews)
        + Len(chat_history) + (next_id - 1) + n <= MaxRows

Browsers == {"b1"}

\* A recovery payload: its kind, the sessions it offers and, once the login route
\* has filtered them, the meaningful ones.
RecoveryData(kind, offered, meaningful_sessions) ==
    [kind |-> kind, sessions |-> offered, meaningful_sessions |-> meaningful_sessions]
NoRecovery == RecoveryData("none", {}, {})
\* The welcome payload of the login route, with its three options.
WelcomePayload == RecoveryData("welcome", {}, {})

\* A Flask session without keys; session.get(key) of an absent key is None, or
\* the default FALSE / 0 given here.
EmptySession ==
    [user |-> None, logged_in |-> FALSE, user_id |-> None, current_session_id |-> 0,
     show_session_recovery |-> FALSE, recovery_data |-> NoRecovery]

\* 'user' in session
LoggedIn(b) == flask[b].user # None

Answer(status, success, body) == [status |-> status, success |-> success, body |-> body]
NotAuthenticated(status) == Answer(status, FALSE, "Not authenticated")
Redirect(location) == Answer(302, FALSE, location)
NoManager == Answer(200, FALSE, "Session manager not available")

WebRecord(endpoint, b, answer, ops) ==
    [endpoint |-> endpoint, browser |-> b, authed |-> LoggedIn(b), answer |-> answer,
     ops |-> ops]

\* ---- session_storage.py, and the session manager over it ----

\* get_conversation_history: SELECT ... WHERE session_id = ?. The handlers here
\* read how many rows there are; the order of the rows is modelled with
\* message_log.
get_conversation_history(session_id) ==
    SelectSeq(conversation_history, LAMBDA m : m.session_id = session_id)

\* get_user_sessions_for_recovery: SELECT ... WHERE s.user_id = ? AND s.is_active = 1
get_user_sessions_for_recovery(user_id) ==
    {sid \in 1..Len(work_sessions) : work_sessions[sid].user_id = user_id}

Message(session_id, user_id, message_type) ==
    [session_id |-> session_id, user_id |-> user_id, message_type |-> message_type]

\* The messages save_chat_message appends: the user's, then the assistant's.
ChatTurn(session_id, user_id) ==
    <<Message(session_id, user_id, "user"), Message(session_id, user_id, "assistant")>>

\* The row create_session inserts. (Of a work session only the owner is kept: the
\* activity stamps and the recovery metadata are read by no handler modelled here.)
NewSession(user_id) == [user_id |-> user_id]

\* ---- the handlers ----

\* get_session_recovery_data(user_id): the welcome payload without sessions, the
\* single-session resume payload naming the one session, else the list to choose from.
get_session_recovery_data(user_id) ==
    LET found == get_user_sessions_for_recovery(user_id)
    IN  IF found = {} THEN WelcomePayload
        ELSE IF Cardinality(found) = 1 THEN RecoveryData("single", found, {})
        ELSE RecoveryData("multiple", found, {})

\* The login route's test for a session with actual work: more than one message, a
\* code review, or a last_active stamp, which every stored row has. (Attached
\* projects are not modelled.)
Meaningful(sid) ==
    \/ Len(get_conversation_history(sid)) > 1
    \/ \E k \in 1..Len(code_reviews) : code_reviews[k].session_id = sid
    \/ sid \in 1..Len(work_sessions)

\* request.args.get('redirect', '/app')
RedirectArgs == {Absent, "https://elsewhere.example/"}
redirect_to(redirect) == IF redirect = Absent THEN "/app" ELSE redirect

\* POST /login without the recovery check: the welcome payload for everyone.
LoginWithoutRecovery(b, name, password, redirect) ==
    IF name = "" \/ password = "" \/ CheckCredentials(name, password) # "ok"
    THEN /\ webLast' = WebRecord("/login", b, Redirect("/"), {})
         /\ UNCHANGED <<flask, work_sessions, conversation_history>>
    ELSE /\ flask' = [flask EXCEPT ![b] =
                [@ EXCEPT !.user = users[FindUser(name)].username, !.logged_in = TRUE,
                          !.show_session_recovery = TRUE,
                          !.recovery_data = WelcomePayload]]
         /\ webLast' = WebRecord("/login", b, Redirect(redirect_to(redirect)), {"authenticate_user"})
         /\ UNCHANGED <<work_sessions, conversation_history>>

\* POST /login. `redirect` is the query argument of that name, Absent without it.
Login(b, name, password, redirect) ==
    LET check == CheckCredentials(name, password)
        user  == users[FindUser(name)].username
        sid   == Len(work_sessions) + 1
        recovery_data == get_session_recovery_data(user)
        meaningful_sessions == {s \in recovery_data.sessions : Meaningful(s)}
        show_session_recovery == session_manager /\ meaningful_sessions # {}
    IN  IF name = "" \/ password = "" \/ check # "ok"
        THEN /\ webLast' = WebRecord("/login", b, Redirect("/"),
                                     IF name = "" \/ password = "" THEN {}
                                     ELSE {"authenticate_user"})
             /\ UNCHANGED <<flask, work_sessions, conversation_history>>
        ELSE IF show_session_recovery
        THEN /\ flask' = [flask EXCEPT ![b] =
                    [@ EXCEPT !.user = user, !.logged_in = TRUE,
                              !.show_session_recovery = TRUE,
                              !.recovery_data =
                                  [recovery_data EXCEPT
                                      !.meaningful_sessions = meaningful_sessions]]]
             /\ webLast' = WebRecord("/login", b, Redirect(redirect_to(redirect)),
                    {"authenticate_user", "get_session_recovery_data"})
             /\ UNCHANGED <<work_sessions, conversation_history>>
        ELSE IF session_manager
        THEN \* no session to recover: a session for this login, with a welcome turn
             /\ sid <= MaxWorkSessions
             /\ Len(conversation_history) + 3 <= MaxMessages
             /\ Room(4)
             /\ work_sessions' = Append(work_sessions, NewSession(user))
             /\ conversation_history' =
                    Append(conversation_history, Message(sid, user, "system"))
                        \o ChatTurn(sid, user)
             /\ flask' = [flask EXCEPT ![b] =
                    [@ EXCEPT !.user = user, !.logged_in = TRUE,
                              !.show_session_recovery = TRUE,
                              !.recovery_data = WelcomePayload]]
             /\ webLast' = WebRecord("/login", b, Redirect(redirect_to(redirect)),
                    {"authenticate_user", "get_session_recovery_data",
                     "create_new_session", "save_chat_message"})
        ELSE /\ flask' = [flask EXCEPT ![b] =
                    [@ EXCEPT !.user = user, !.logged_in = TRUE,
                              !.show_session_recovery = TRUE,
                              !.recovery_data = WelcomePayload]]
             /\ webLast' = WebRecord("/login", b, Redirect(redirect_to(redirect)), {"authenticate_user"})
             /\ UNCHANGED <<work_sessions, conversation_history>>

\* GET /app
AppInterface(b) ==
    IF ~LoggedIn(b)
    THEN /\ webLast' = WebRecord("/app", b, Redirect("/login?redirect=/app"), {})
         /\ UNCHANGED flask
    ELSE /\ flask' = [flask EXCEPT ![b] =
                [@ EXCEPT !.show_session_recovery = FALSE, !.recovery_data = NoRecovery]]
         /\ webLast' = WebRecord("/app", b, Answer(200, TRUE, "app.html"), {})

\* GET /chat
ChatInterface(b) ==
    /\ webLast' = WebRecord("/chat", b,
            IF LoggedIn(b) THEN Answer(200, TRUE, "app.html")
            ELSE Redirect("/login?redirect=/chat"), {})
    /\ UNCHANGED flask

\* GET /logout
Logout(b) ==
    /\ flask' = [flask EXCEPT ![b] = EmptySession]
    /\ webLast' = WebRecord("/logout", b, Redirect("/"), {})

\* POST /api/logout
ApiLogout(b) ==
    /\ flask' = [flask EXCEPT ![b] = EmptySession]
    /\ webLast' = WebRecord("/api/logout", b, Answer(200, TRUE, "Logged out successfully"), {})

\* The registration form of POST /register.
RegisterForm(username, password, confirm_password, email) ==
    [username |-> username, password |-> password, confirm_password |-> confirm_password,
     email |-> email]
RegisterForms ==
    { RegisterForm("alice", "secret1", "secret1", "alice@example.com"),
      RegisterForm("alice", "abc", "abc", "alice@example.com"),
      RegisterForm("alice", "secret1", "secret2", "alice@example.com"),
      RegisterForm("alice", "secret1", "secret1", ""),
      RegisterForm("admin", "secret1", "secret1", "root@example.com") }

\* re.match(email_pattern, email), on the addresses of the forms
MatchesEmailPattern(email) == email \in {"alice@example.com", "root@example.com"}
\* "@" in email, on the addresses of the forms
HasAt(email) == email \in {"alice@example.com", "root@example.com", "admin@localhost"}

\* The validation of the register route, before register_user is called.
RegisterFormError(form) ==
    IF Len(form.username) < 3 THEN "Benutzername muss mindestens 3 Zeichen haben"
    ELSE IF Len(form.username) > 50 THEN "Benutzername darf maximal 50 Zeichen haben"
    ELSE IF Len(form.password) < 6 THEN "Passwort muss mindestens 6 Zeichen haben"
    ELSE IF form.password # form.confirm_password THEN "Passwoerter stimmen nicht ueberein"
    ELSE IF form.email # "" /\ ~MatchesEmailPattern(form.email)
         THEN "Bitte geben Sie eine gueltige E-Mail-Adresse ein"
    ELSE None

\* auth_system.register_user: its own validation and the uniqueness lookup.
register_user_error(username, email, password) ==
    IF Len(username) < 3 THEN "Username muss mindestens 3 Zeichen haben"
    ELSE IF Len(password) < 6 THEN "Passwort muss mindestens 6 Zeichen haben"
    ELSE IF ~HasAt(email) THEN "Ungueltige E-Mail-Adresse"
    ELSE IF \E i \in 1..Len(users) : users[i].username = username \/ users[i].email = email
         THEN "Username oder E-Mail bereits vergeben"
    ELSE None

\* POST /register: the new user is logged in at once.
Register(b, form) ==
    LET error == RegisterFormError(form)
        refused == register_user_error(form.username, form.email, form.password)
        row == [id |-> Len(users) + 1, username |-> form.username, email |-> form.email,
                password_hash |-> _hash_password(form.password),
                display_name |-> form.username, is_admin |-> FALSE, is_active |-> TRUE]
    IN  IF error # None
        THEN /\ webLast' = WebRecord("/register", b, Answer(200, FALSE, error), {})
             /\ UNCHANGED <<users, flask>>
        ELSE IF refused # None
        THEN /\ webLast' = WebRecord("/register", b, Answer(200, FALSE, refused),
                                     {"register_user"})
             /\ UNCHANGED <<users, flask>>
        ELSE /\ users' = Append(users, row)
             /\ flask' = [flask EXCEPT ![b] = [@ EXCEPT !.user = row.username,
                                                        !.logged_in = TRUE]]
             /\ webLast' = WebRecord("/register", b, Redirect("/app"),
                                     {"register_user", "authenticate_user"})

\* str.lower(), on the names tried
Lower(name) == IF name = "Admin" THEN "admin" ELSE name
CheckedNames == {"al", "admin", "Admin", "alice"}

\* auth_system.check_username_available
check_username_available(username) ==
    /\ Len(Lower(username)) >= 3
    /\ Len(Lower(username)) <= 50
    /\ ~\E i \in 1..Len(users) : Lower(users[i].username) = Lower(username)

\* POST /api/check-username
CheckUsername(b, username) ==
    webLast' = WebRecord("/api/check-username", b,
        IF Len(username) < 3 THEN Answer(200, FALSE, "Username zu kurz")
        ELSE IF check_username_available(username) THEN Answer(200, TRUE, "Username verfuegbar")
        ELSE Answer(200, FALSE, "Username bereits vergeben"),
        IF Len(username) < 3 THEN {} ELSE {"check_username_available"})

\* POST /api/session-recovery
ApiSessionRecovery(b) ==
    webLast' = WebRecord("/api/session-recovery", b,
        IF ~LoggedIn(b) THEN NotAuthenticated(200)
        ELSE IF ~session_manager THEN NoManager
        ELSE Answer(200, TRUE, "recovery_data"),
        IF LoggedIn(b) /\ session_manager THEN {"get_session_recovery_data"} ELSE {})

\* POST /api/resume-session; session_id 0 is a request without one. resume_session
\* loads the messages and reviews stored under the session id, whoever owns it.
ApiResumeSession(b, session_id) ==
    IF ~LoggedIn(b)
    THEN /\ webLast' = WebRecord("/api/resume-session", b, NotAuthenticated(200), {})
         /\ UNCHANGED <<flask, work_sessions>>
    ELSE IF ~session_manager
    THEN /\ webLast' = WebRecord("/api/resume-session", b, NoManager, {})
         /\ UNCHANGED <<flask, work_sessions>>
    ELSE IF session_id = 0
    THEN /\ webLast' = WebRecord("/api/resume-session", b,
                                 Answer(200, FALSE, "Session ID required"), {})
         /\ UNCHANGED <<flask, work_sessions>>
    ELSE /\ UNCHANGED work_sessions
         /\ flask' = [flask EXCEPT ![b] = [@ EXCEPT !.current_session_id = session_id]]
         /\ webLast' = WebRecord("/api/resume-session", b,
                Answer(200, TRUE, "Session erfolgreich wiederhergestellt!"),
                {"resume_session"})

\* POST /api/create-session
ApiCreateSession(b, project_name) ==
    LET sid == Len(work_sessions) + 1
    IN  IF ~LoggedIn(b) \/ ~session_manager \/ project_name = ""
        THEN /\ webLast' = WebRecord("/api/create-session", b,
                    IF ~LoggedIn(b) THEN NotAuthenticated(200)
                    ELSE IF ~session_manager THEN NoManager
                    ELSE Answer(200, FALSE, "Project name required"), {})
             /\ UNCHANGED <<flask, work_sessions, conversation_history>>
        ELSE /\ sid <= MaxWorkSessions
             /\ Len(conversation_history) < MaxMessages
             /\ Room(2)
             /\ work_sessions' = Append(work_sessions, NewSession(flask[b].user))
             /\ conversation_history' =
                    Append(conversation_history, Message(sid, flask[b].user, "system"))
             /\ flask' = [flask EXCEPT ![b] = [@ EXCEPT !.current_session_id = sid]]
             /\ webLast' = WebRecord("/api/create-session", b, Answer(200, TRUE, "session_id"),
                                     {"create_new_session"})

\* POST /api/smart-suggestions
ApiSmartSuggestions(b) ==
    webLast' = WebRecord("/api/smart-suggestions", b,
        IF ~LoggedIn(b) THEN NotAuthenticated(200)
        ELSE IF ~session_manager THEN NoManager
        ELSE IF flask[b].current_session_id = 0 THEN Answer(200, FALSE, "No active session")
        ELSE Answer(200, TRUE, "suggestions"),
        IF LoggedIn(b) /\ session_manager /\ flask[b].current_session_id # 0
        THEN {"generate_smart_suggestions"} ELSE {})

\* process_message saves the turn in chat_history, unless the LLM call failed.
ChatSaved(user_id, saved) ==
    IF saved THEN Append(chat_history, [user_id |-> user_id]) ELSE chat_history

\* POST /api/chat. `saved` is FALSE when the LLM call of process_message fails.
ApiChat(b, message, saved) ==
    LET user == flask[b].user
        sid  == flask[b].current_session_id
        tracked == session_manager /\ sid # 0
    IN  IF ~LoggedIn(b) \/ message = ""
        THEN /\ webLast' = WebRecord("/api/chat", b,
                    IF ~LoggedIn(b) THEN NotAuthenticated(200)
                    ELSE Answer(200, FALSE, "Empty message"), {})
             /\ UNCHANGED <<chat_history, conversation_history, work_sessions>>
        ELSE /\ Len(chat_history) < MaxChats
             /\ Room(IF tracked THEN 3 ELSE 1)
             /\ chat_history' = ChatSaved(user, saved)
             /\ IF tracked
                THEN /\ Len(conversation_history) + 2 <= MaxMessages
                     /\ conversation_history' = conversation_history \o ChatTurn(sid, user)
                ELSE UNCHANGED conversation_history
             /\ UNCHANGED work_sessions
             /\ webLast' = WebRecord("/api/chat", b, Answer(200, TRUE, "response"),
                    IF tracked
                    THEN {"get_session_context", "process_message", "save_chat_message"}
                    ELSE {"process_message"})

\* GET /api/projects
GetProjectsApi(b) ==
    IF ~LoggedIn(b)
    THEN /\ webLast' = WebRecord("/api/projects GET", b, NotAuthenticated(401), {})
         /\ UNCHANGED projVars
    ELSE /\ Room(1)
         /\ GetUserProjects(flask[b].user)
         /\ webLast' = WebRecord("/api/projects GET", b, Answer(200, TRUE, "projects"),
                                 {"get_user_projects"})

\* POST /api/projects
CreateProjectApi(b, name) ==
    IF ~LoggedIn(b) \/ name = ""
    THEN /\ webLast' = WebRecord("/api/projects POST", b,
                IF ~LoggedIn(b) THEN NotAuthenticated(401)
                ELSE Answer(400, FALSE, "Projektname ist erforderlich"), {})
         /\ UNCHANGED projVars
    ELSE /\ Room(1)
         /\ CreateProject(flask[b].user, name)
         /\ webLast' = WebRecord("/api/projects POST", b, Answer(200, TRUE, "project"),
                                 {"create_project"})

\* What PUT and DELETE /api/projects/<id> answer for the result of the engine.
ProjectAnswer(result) ==
    IF result = "success" THEN Answer(200, TRUE, result) ELSE Answer(400, FALSE, result)

\* PUT /api/projects/<id>: the user is read from the session key 'user_id'.
UpdateProjectApi(b, pid, kwargs) ==
    IF flask[b].user_id = None
    THEN /\ webLast' = WebRecord("/api/projects PUT", b, NotAuthenticated(401), {})
         /\ UNCHANGED projVars
    ELSE /\ UpdateProject(pid, flask[b].user_id, kwargs)
         /\ webLast' = WebRecord("/api/projects PUT", b, ProjectAnswer(projLast'.result),
                                 {"update_project"})

\* DELETE /api/projects/<id>
DeleteProjectApi(b, pid) ==
    IF flask[b].user_id = None
    THEN /\ webLast' = WebRecord("/api/projects DELETE", b, NotAuthenticated(401), {})
         /\ UNCHANGED projVars
    ELSE /\ DeleteProject(pid, flask[b].user_id)
         /\ webLast' = WebRecord("/api/projects DELETE", b, ProjectAnswer(projLast'.result),
                                 {"delete_project"})

\* POST /api/code-review. `analysed` is FALSE when analyze_code reports a failure.
ApiCodeReview(b, code, analysed) ==
    LET user == flask[b].user
        sid  == flask[b].current_session_id
        tracked == session_manager /\ sid # 0 /\ analysed
    IN  IF ~LoggedIn(b) \/ code = ""
        THEN /\ webLast' = WebRecord("/api/code-review", b,
                    IF ~LoggedIn(b) THEN NotAuthenticated(200)
                    ELSE Answer(200, FALSE, "No code provided"), {})
             /\ UNCHANGED <<code_reviews, work_sessions>>
        ELSE /\ IF tracked
                THEN /\ Len(code_reviews) < MaxReviews
                     /\ Room(1)
                     /\ code_reviews' = Append(code_reviews,
                                               [session_id |-> sid, user_id |-> user])
                ELSE UNCHANGED code_reviews
             /\ UNCHANGED work_sessions
             /\ webLast' = WebRecord("/api/code-review", b,
                    IF analysed THEN Answer(200, TRUE, "analysis")
                    ELSE Answer(200, FALSE, "Fehler bei der Code-Analyse"),
                    IF tracked THEN {"analyze_code", "save_code_review_result"}
                    ELSE {"analyze_code"})

\* GET /api/metrics
ApiMetrics(b) ==
    webLast' = WebRecord("/api/metrics", b,
        IF LoggedIn(b) THEN Answer(200, TRUE, "metrics") ELSE NotAuthenticated(200),
        IF LoggedIn(b) THEN {"get_metrics"} ELSE {})

WebInit ==
    /\ flask = [b \in Browsers |-> EmptySession]
    /\ session_manager \in BOOLEAN
    /\ work_sessions = <<>>
    /\ conversation_history = <<>>
    /\ code_reviews = <<>>
    /\ chat_history = <<>>
    /\ webLast = [endpoint |-> "init", browser |-> None, authed |-> FALSE,
                  answer |-> Answer(200, TRUE, "init"), ops |-> {}]

WebIdle == WebInit /\ session_manager = FALSE

(***************************************************************************)
(*          core/bot_engine.py: process_message and analyze_code           *)
(***************************************************************************)

MaxCalls == 3    \* calls of process_message per run

PrimaryModel == "claude-opus-4-20250514"
FallbackModel == "claude-3-5-sonnet-20241022"
FallbackMode == "Fallback Mode"

\* A message is a sequence of characters.
Messages ==
    { <<"H", "i">>, <<"h", "a", "l", "l", "o">>, <<"p", "r", "o", "j", "e", "k", "t">>,
      <<"H", "i", " ", "P", "r", "o", "j", "e", "k", "t">>,
      <<"c", "o", "d", "e">>, <<"x">> }

\* str.lower(), on the capitals of Messages
LowerChar == [c \in {"H", "P"} |-> IF c = "H" THEN "h" ELSE "p"]
message_lower(message) ==
    [i \in 1..Len(message) |->
        IF message[i] \in DOMAIN LowerChar THEN LowerChar[message[i]] ELSE message[i]]

\* word in text
Contains(text, word) ==
    \E i \in 1..(Len(text) - Len(word) + 1) : SubSeq(text, i, i + Len(word) - 1) = word

\* user_context: a key that is missing is Absent.
Contexts ==
    { [user_id |-> "alice", display_name |-> "Ada", mode |-> "programming"],
      [user_id |-> "alice", display_name |-> "Ada", mode |-> "casual"],
      [user_id |-> Absent, display_name |-> Absent, mode |-> Absent] }
\* context.get(key, default)
Get(context, key, default) == IF context[key] = Absent THEN default ELSE context[key]

\* The replies of the rule-based responder, and the reply when every call failed.
Greeting(user_name) == <<"Hallo", user_name, "Wie kann ich dir helfen?">>
ProjectReply == <<"Gerne helfe ich dir bei deinem Projekt! Was moechtest du erstellen?">>
CodeReply == <<"Ich kann dir bei der Code-Analyse und -Ueberpruefung helfen. Zeig mir deinen Code!">>
TellMore(user_name) == <<"Interessant! Erzaehl mir mehr darueber", user_name>>
Apology == <<"Entschuldigung, ich hatte ein Problem. Kannst du deine Nachricht wiederholen?">>

\* _process_fallback(message, context, mode)
_process_fallback(message, context) ==
    LET user_name == Get(context, "display_name", "Freund")
        lower     == message_lower(message)
    IN  IF Contains(lower, <<"h", "a", "l", "l", "o">>) \/ Contains(lower, <<"h", "i">>)
        THEN Greeting(user_name)
        ELSE IF Contains(lower, <<"p", "r", "o", "j", "e", "k", "t">>) THEN ProjectReply
        ELSE IF Contains(lower, <<"c", "o", "d", "e">>) THEN CodeReply
        ELSE TellMore(user_name)

\* An exception on its way to the caller.
Raised == <<"raised">>

\* _process_with_claude: the text of the reply, or the exception of the API call,
\* raised again.
_process_with_claude(used, ok) == IF ok THEN <<"reply of", used>> ELSE Raised

\* What an except block that raises again passes on.
Reraise(error) == error
\* The last lines of process_message: the apology is returned.
UltimateFallback(error) == Apology
\* The except block of analyze_code: an error dict is returned.
AnalysisError(error) == <<"Fehler bei der Code-Analyse">>

LlmCall(used, ok) == [model |-> used, ok |-> ok]

\* The row _save_chat_history inserts (the message and the session id are left out).
ChatRow(context, response, model_used) ==
    [user_id |-> Get(context, "user_id", "anonymous"), response |-> response,
     context |-> Get(context, "mode", "programming"), model_used |-> model_used]

EngineRecord(op, message, context, calls, result) ==
    [op |-> op, message |-> message, context |-> context, calls |-> calls, result |-> result]

\* process_message(message, user_context). primary_ok and fallback_ok say whether
\* the API call with self.model, and the one with the fallback model, succeed.
ProcessMessage(message, context, primary_ok, fallback_ok) ==
    LET first  == IF client THEN _process_with_claude(model, primary_ok)
                  ELSE _process_fallback(message, context)
        second == _process_with_claude(fallback_model, fallback_ok)
    IN  /\ message_count < MaxCalls
        /\ message_count' = message_count + 1
        /\ UNCHANGED <<client, fallback_model>>
        /\ IF first # Raised
           THEN /\ chat_history' = Append(chat_history,
                        ChatRow(context, first, IF client THEN model ELSE FallbackMode))
                /\ engineLast' = EngineRecord("process_message", message, context,
                        IF client THEN <<LlmCall(model, TRUE)>> ELSE <<>>, first)
                /\ UNCHANGED model
           ELSE IF fallback_model # None /\ client
           THEN IF second # Raised
                THEN /\ model' = fallback_model
                     /\ chat_history' = Append(chat_history,
                             ChatRow(context, second, fallback_model))
                     /\ engineLast' = EngineRecord("process_message", message, context,
                             <<LlmCall(model, FALSE), LlmCall(fallback_model, TRUE)>>, second)
                ELSE /\ UNCHANGED <<model, chat_history>>
                     /\ engineLast' = EngineRecord("process_message", message, context,
                             <<LlmCall(model, FALSE), LlmCall(fallback_model, FALSE)>>,
                             UltimateFallback(second))
           ELSE /\ UNCHANGED <<model, chat_history>>
                /\ engineLast' = EngineRecord("process_message", message, context,
                        <<LlmCall(model, FALSE)>>, UltimateFallback(first))

\* analyze_code(code, language): the analysis of the model, the fallback analysis
\* without a client, or the error dict when the API call fails.
AnalyzeCode(ok) ==
    /\ engineLast' = EngineRecord("analyze_code", <<>>, [user_id |-> Absent,
            display_name |-> Absent, mode |-> Absent],
            IF client THEN <<LlmCall(model, ok)>> ELSE <<>>,
            IF ~client THEN <<"analysis of", "Fallback-Analyse">>
            ELSE IF ok THEN <<"analysis of", model>>
            ELSE AnalysisError(Raised))
    /\ UNCHANGED <<client, model, fallback_model, message_count, chat_history>>

EngineStart ==
    EngineRecord("init", <<>>, [user_id |-> Absent, display_name |-> Absent, mode |-> Absent],
                 <<>>, <<>>)

\* __init__: the client exists if an API key was given; the fallback model comes
\* from the configuration.
EngineInit ==
    /\ client \in BOOLEAN
    /\ model = PrimaryModel
    /\ fallback_model \in {None, FallbackModel}
    /\ message_count = 0
    /\ engineLast = EngineStart

EngineIdle ==
    /\ client = FALSE
    /\ model = PrimaryModel
    /\ fallback_model = None
    /\ message_count = 0
    /\ engineLast = EngineStart

(***************************************************************************)
(*                     config.py: the model registry                       *)
(***************************************************************************)

MaxChecks == 3      \* update checks per run
MaxDay == 8         \* the last day of a run
\* The weekly dates _get_expected_models goes back from today (26 in the code).
WindowWeeks == 2

\* A model name is the sequence of its parts: 'claude-opus-4-<date>' is
\* <<"claude", "opus", "4", date>>, 'claude-3-7-sonnet-<date>' is
\* <<"claude", "3", "7", "sonnet", date>>. Dates are days; day 0 is 2025-05-14.
Claude4(type, date) == <<"claude", type, "4", date>>
Claude3(minor, type, date) == <<"claude", "3", minor, type, date>>
NoModel == <<>>

\* create_default_config
DefaultKnownModels == {Claude4("opus", 0), Claude4("sonnet", 0), Claude3("7", "sonnet", -84)}
Preferences ==
    [primary : {"sonnet", "opus"}, max_cost_tier : {"low", "medium", "opus"},
     auto_update : BOOLEAN, require_confirmation : BOOLEAN]
DefaultConfig(preferences) ==
    [current_model |-> Claude4("opus", 0), known_models |-> DefaultKnownModels,
     model_preferences |-> preferences]

\* _get_expected_models: four names for each weekly date back from today.
ExpectedOn(date) ==
    <<Claude4("opus", date), Claude4("sonnet", date), Claude4("haiku", date),
      Claude3("7", "sonnet", date)>>
RECURSIVE ExpectedModels(_)
ExpectedModels(weeks_back) ==
    IF weeks_back = WindowWeeks THEN <<>>
    ELSE ExpectedOn(today' - 7 * weeks_back) \o ExpectedModels(weeks_back + 1)

\* _get_cost_tier
CostTier(model_type) ==
    CASE model_type = "haiku" -> "low"
      [] model_type = "sonnet" -> "medium"
      [] model_type = "opus" -> "high"
      [] OTHER -> "medium"

\* _parse_model_name: whether a pattern matches, and the info dict of a match.
Parses(name) ==
    \/ Len(name) = 4 /\ name[1] = "claude" /\ name[2] \in {"opus", "sonnet", "haiku"}
          /\ name[3] = "4"
    \/ Len(name) = 5 /\ name[1] = "claude" /\ name[2] = "3" /\ name[3] \in {"7", "5"}
          /\ name[4] \in {"sonnet", "haiku"}
ModelType(name) ==
    IF \E k \in 1..(Len(name) - 1) : name[k] = "opus" THEN "opus"
    ELSE IF \E k \in 1..(Len(name) - 1) : name[k] = "haiku" THEN "haiku"
    ELSE "sonnet"
_parse_model_name(name) ==
    [name |-> name, type |-> ModelType(name),
     generation |-> IF Len(name) = 4 THEN "claude-4"
                    ELSE IF name[3] = "7" THEN "claude-3.7" ELSE "claude-3.5",
     date |-> name[Len(name)],
     priority |-> IF Len(name) = 4 THEN 100 ELSE IF name[3] = "7" THEN 90 ELSE 80,
     cost_tier |-> CostTier(ModelType(name))]

\* cost_tiers.get(tier, default)
TierRank(tier, default) ==
    CASE tier = "low" -> 1 [] tier = "medium" -> 2 [] tier = "high" -> 3 [] OTHER -> default

\* Any cost tier is accepted.
AnyCost(new_model) == TRUE
\* The cost tier check of _is_better_model.
CostAllowed(new_model) ==
    TierRank(new_model.cost_tier, 2) <= TierRank(config.model_preferences.max_cost_tier, 3)

\* _is_better_model(new_model, current_model)
_is_better_model(new_model) ==
    /\ CostAllowed(new_model)
    /\ \/ new_model.type = config.model_preferences.primary
       \/ new_model.priority > 95

\* _analyze_new_models: the models that are not known, parse and are better, and
\* the first of them after the sort by priority and date, descending: the first
\* in the list among those of the highest key.
NewNames(available_models) ==
    SelectSeq(available_models,
        LAMBDA name : /\ name \notin config.known_models
                      /\ Parses(name)
                      /\ _is_better_model(_parse_model_name(name)))
KeyAtLeast(a, b) ==
    \/ a.priority > b.priority
    \/ a.priority = b.priority /\ a.date >= b.date
BestModel(names) ==
    LET top == {i \in 1..Len(names) : \A j \in 1..Len(names) :
                    KeyAtLeast(_parse_model_name(names[i]), _parse_model_name(names[j]))}
    IN  _parse_model_name(names[CHOOSE i \in top : \A j \in top : i <= j])

\* Never asks for confirmation.
NoConfirmation(preferences) == FALSE
\* preferences.get('require_confirmation', False)
RequiresConfirmation(preferences) == preferences.require_confirmation

UpdateResult(updated, confirmation_required, new_model) ==
    [updated |-> updated, confirmation_required |-> confirmation_required,
     new_model |-> new_model]
RegistryRecord(op, candidates, result) ==
    [op |-> op, candidates |-> candidates, result |-> result]

\* check_for_model_updates, run on day d: _fetch_anthropic_models,
\* _analyze_new_models and _process_model_updates.
CheckForModelUpdates(d) ==
    LET names == NewNames(ExpectedModels(0))
        best  == BestModel(names)
        preferences == config.model_preferences
        updated == [config EXCEPT !.current_model = best.name,
                                  !.known_models = @ \cup {best.name}]
    IN  /\ checks < MaxChecks
        /\ checks' = checks + 1
        /\ today' = d
        /\ IF names = <<>>
           THEN /\ last_check' = d
                /\ registryLast' = RegistryRecord("check", names,
                                                  UpdateResult(FALSE, FALSE, NoModel))
                /\ UNCHANGED <<config, config_file>>
           ELSE IF ~preferences.auto_update
           THEN /\ registryLast' = RegistryRecord("check", names,
                                                  UpdateResult(FALSE, FALSE, best.name))
                /\ UNCHANGED <<config, config_file, last_check>>
           ELSE IF RequiresConfirmation(preferences)
           THEN /\ registryLast' = RegistryRecord("check", names,
                                                  UpdateResult(FALSE, TRUE, best.name))
                /\ UNCHANGED <<config, config_file, last_check>>
           ELSE /\ config' = updated
                /\ config_file' = updated
                /\ last_check' = d
                /\ registryLast' = RegistryRecord("check", names,
                                                  UpdateResult(TRUE, FALSE, best.name))

\* self.check_interval_hours
check_interval_hours == 24

\* should_check_for_updates, asked on the day of `today`: the last-check file is
\* missing, or more than the interval has passed since the date in it.
\* (auto_update_enabled keeps its default, True.)
should_check_for_updates ==
    \/ last_check = 0
    \/ (today - last_check) * 24 > check_interval_hours

\* The names force_model_update is called with.
ForcedNames == {Claude4("sonnet", 0), Claude4("opus", 7), <<"gpt", "5">>}

\* force_model_update(model_name)
ForceModelUpdate(model_name) ==
    /\ config' = [config EXCEPT !.current_model = model_name]
    /\ config_file' = config'
    /\ registryLast' = RegistryRecord("force", <<>>, UpdateResult(TRUE, FALSE, model_name))
    /\ UNCHANGED <<today, last_check, checks>>

\* __init__: the default configuration, or the file as edited by hand.
RegistryInit ==
    /\ config \in {DefaultConfig(preferences) : preferences \in Preferences}
    /\ config_file = config
    /\ today = 1
    /\ last_check = 0
    /\ checks = 0
    /\ registryLast = RegistryRecord("init", <<>>, UpdateResult(FALSE, FALSE, NoModel))

RegistryIdle ==
    /\ config = DefaultConfig([primary |-> "sonnet", max_cost_tier |-> "opus",
                               auto_update |-> TRUE, require_confirmation |-> FALSE])
    /\ config_file = config
    /\ today = 1
    /\ last_check = 0
    /\ checks = 0
    /\ registryLast = RegistryRecord("init", <<>>, UpdateResult(FALSE, FALSE, NoModel))

(***************************************************************************)
(*                  migrate.py: the schema migration                       *)
(***************************************************************************)

MaxRuns == 3        \* runs of migrate_database
MaxOldRows == 1     \* rows in chat_history before the first run

\* The columns chat_history has had from the start, and the later ones, in the
\* order migrate_database adds them.
BaseColumns == <<"id", "user_id", "message", "response", "timestamp">>
AddedColumns == <<"model_used", "session_id", "context">>
ColumnSet(columns) == {columns[i] : i \in 1..Len(columns)}

\* The DEFAULT of each added column.
ColumnDefault(column) ==
    CASE column = "model_used" -> "unknown"
      [] column = "session_id" -> "default"
      [] column = "context" -> "general"

Table(info, rows, raised) == [info |-> info, rows |-> rows, raised |-> raised]

\* ALTER TABLE chat_history ADD COLUMN column TEXT DEFAULT ...: an error if
\* there is no such table or the column is there already; else the column is
\* appended and every row reads its default. Nothing runs after an error.
AlterTableAddColumn(table, column) ==
    IF table.raised THEN table
    ELSE IF table.info = <<>> \/ column \in ColumnSet(table.info)
    THEN Table(table.info, table.rows, TRUE)
    ELSE Table(Append(table.info, column),
               [i \in 1..Len(table.rows) |->
                    table.rows[i] @@ (column :> ColumnDefault(column))],
               FALSE)

\* The test is never passed.
AlwaysMissing(column, columns) == TRUE
\* if '<column>' not in columns
Missing(column, columns) == column \notin ColumnSet(columns)

RECURSIVE AddMissing(_, _, _)
AddMissing(table, columns, k) ==
    IF k > Len(AddedColumns) THEN table
    ELSE AddMissing(IF Missing(AddedColumns[k], columns)
                    THEN AlterTableAddColumn(table, AddedColumns[k]) ELSE table,
                    columns, k + 1)

MigrateRecord(op, raised) == [op |-> op, raised |-> raised]

\* migrate_database
MigrateDatabase ==
    LET columns == table_info
        table == AddMissing(Table(table_info, table_rows, FALSE), columns, 1)
    IN  /\ migrations < MaxRuns
        /\ migrations' = migrations + 1
        /\ table_info' = table.info
        /\ table_rows' = table.rows
        /\ migrateLast' = MigrateRecord("migrate_database", table.raised)

\* The later columns a table may have before the first run, in any order.
OldColumns ==
    {columns \in UNION {[1..n -> ColumnSet(AddedColumns)] : n \in 0..Len(AddedColumns)} :
        \A i, j \in 1..Len(columns) : i # j => columns[i] # columns[j]}

\* A database without the table, or a table of any earlier schema with its rows.
MigrateInit ==
    /\ \/ table_info = <<>> /\ table_rows = <<>>
       \/ \E old \in OldColumns, n \in 0..MaxOldRows :
             /\ table_info = BaseColumns \o old
             /\ table_rows \in [1..n -> [ColumnSet(old) -> {"NULL", "set"}]]
    /\ migrations = 0
    /\ migrateLast = MigrateRecord("init", FALSE)

\* The table as bot_engine.py creates it.
MigrateIdle ==
    /\ table_info = BaseColumns \o <<"context", "session_id", "model_used">>
    /\ table_rows = <<>>
    /\ migrations = 0
    /\ migrateLast = MigrateRecord("init", FALSE)

(***************************************************************************)
(*        auth_system.py: the user store, start-up and registration        *)
(***************************************************************************)

MaxUsers == 3       \* rows of users

\* The AuthenticationSystem objects over one auth database.
Instances == {"i1", "i2"}

\* A row the operator has deactivated by hand (no method writes is_active).
InactiveUser ==
    [id |-> 2, username |-> "bob", email |-> "bob@example.com",
     password_hash |-> _hash_password("secret1"), display_name |-> "Bob",
     is_admin |-> FALSE, is_active |-> FALSE]

\* SELECT COUNT(*) FROM users WHERE is_admin = TRUE
AdminCount == Cardinality({i \in 1..Len(users) : users[i].is_admin})

\* The UNIQUE constraints of username and email (binary collation).
ViolatesUnique(row) ==
    \E i \in 1..Len(users) : users[i].username = row.username \/ users[i].email = row.email

BootState(pc, admin_count) == [pc |-> pc, admin_count |-> admin_count]

\* __init__ -> init_database: the tables are created if they are missing.
InitDatabase(i) ==
    /\ boot[i].pc = "new"
    /\ boot' = [boot EXCEPT ![i] = BootState("tables", 0)]
    /\ authLast' = AuthRecord("init_database", None, 0, None, 0)
    /\ UNCHANGED users

\* _create_default_admin, first statement: the admins are counted.
CountAdmins(i) ==
    /\ boot[i].pc = "tables"
    /\ boot' = [boot EXCEPT ![i] = BootState("counted", AdminCount)]
    /\ authLast' = AuthRecord("count_admins", None, 0, None, 0)
    /\ UNCHANGED users

\* _create_default_admin, the rest: with a count of 0 the admin row is inserted;
\* an insert that breaks a UNIQUE constraint raises, which is logged.
CreateDefaultAdmin(i) ==
    LET row == [DefaultAdmin EXCEPT !.id = Len(users) + 1]
    IN  /\ boot[i].pc = "counted"
        /\ boot' = [boot EXCEPT ![i] = BootState("ready", boot[i].admin_count)]
        /\ IF boot[i].admin_count = 0 /\ ~ViolatesUnique(row)
           THEN /\ users' = Append(users, row)
                /\ authLast' = AuthRecord("create_default_admin", "admin", 0, "created", 0)
           ELSE /\ UNCHANGED users
                /\ authLast' = AuthRecord("create_default_admin", "admin", 0,
                        IF boot[i].admin_count = 0 THEN "IntegrityError" ELSE None, 0)

\* The process of an instance ends; a new one may start over the same database.
Restart(i) ==
    /\ boot[i].pc = "ready"
    /\ boot' = [boot EXCEPT ![i] = BootState("new", 0)]
    /\ authLast' = AuthRecord("restart", None, 0, None, 0)
    /\ UNCHANGED users

\* Calls reach an instance once its __init__ has returned.
Ready == \E i \in Instances : boot[i].pc = "ready"

\* The arguments register_user is called with.
RegisterNames == {"al", "admin", "Admin", "carol"}
RegisterEmails == {"alice@example.com"}
RegisterPasswords == {"abc", "Abcdefgh1!x", "Abcdefgh1!xy"}

\* register_user(username, email, password, display_name)
RegisterUser(username, email, password) ==
    LET refused == register_user_error(username, email, password)
        row == [id |-> Len(users) + 1, username |-> username, email |-> email,
                password_hash |-> _hash_password(password), display_name |-> username,
                is_admin |-> FALSE, is_active |-> TRUE]
    IN  /\ Ready
        /\ IF refused # None
           THEN /\ authLast' = AuthRecord("register", username, 0, refused, 0)
                /\ UNCHANGED users
           ELSE /\ Len(users) < MaxUsers
                /\ users' = Append(users, row)
                /\ authLast' = AuthRecord("register", username, 0, "success", 0)
        /\ UNCHANGED boot

\* A fresh database, or one with the admin and a deactivated user; no instance
\* has started.
AccountsInit ==
    /\ users \in {<<>>, <<DefaultAdmin, InactiveUser>>}
    /\ user_sessions = <<>>
    /\ now = 0
    /\ tz = 0
    /\ ticks = 0
    /\ loggedOut = {}
    /\ authLast = AuthRecord("init", None, 0, None, 0)
    /\ boot = [i \in Instances |-> BootState("new", 0)]

\* One instance, started.
BootIdle == boot = [i \in Instances |-> BootState(IF i = "i1" THEN "ready" ELSE "new", 0)]

\* _load_config: os.getenv('ENABLE_USER_REGISTRATION', 'False') in ('true', '1', 'yes')
SettingsInit ==
    /\ ENABLE_USER_REGISTRATION \in BOOLEAN
    /\ CLAUDE_MODEL = config.current_model
\* The default, without the environment variable.
SettingsIdle ==
    /\ ENABLE_USER_REGISTRATION = FALSE
    /\ CLAUDE_MODEL = config.current_model

(***************************************************************************)
(*          config.py: SmartConfig and the module-level functions          *)
(***************************************************************************)

\* _config_instance is not None
ConfigInstance == CLAUDE_MODEL # NoModel

\* should_check_for_updates, asked on day d.
ShouldCheckOn(d) ==
    \/ last_check = 0
    \/ (d - last_check) * 24 > check_interval_hours

\* SmartConfig(), on day d (get_config in a new process): ModelRegistry() reads
\* the configuration file, _load_config copies the current model, and if a check
\* is due _check_and_update_models runs it and copies the model again when the
\* result says updated.
SmartConfigInit(d) ==
    IF ShouldCheckOn(d)
    THEN /\ CheckForModelUpdates(d)
         /\ CLAUDE_MODEL' = IF registryLast'.result.updated
                            THEN config'.current_model ELSE config.current_model
    ELSE /\ CLAUDE_MODEL' = config.current_model
         /\ today' = d
         /\ UNCHANGED <<config, config_file, last_check, checks, registryLast>>

\* check_for_model_updates(), the module-level function, on day d:
\* get_config().model_registry.check_for_model_updates()
ManualCheck(d) ==
    /\ ConfigInstance
    /\ CheckForModelUpdates(d)
    /\ UNCHANGED CLAUDE_MODEL

\* set_claude_model(model_name): SmartConfig.force_model_update
SetClaudeModel(model_name) ==
    /\ ConfigInstance
    /\ ForceModelUpdate(model_name)
    /\ CLAUDE_MODEL' = model_name

\* get_current_claude_model()
get_current_claude_model == CLAUDE_MODEL

\* Before the first get_config().
SmartConfigStart ==
    /\ ENABLE_USER_REGISTRATION = FALSE
    /\ CLAUDE_MODEL = NoModel

(***************************************************************************)
(*        session_storage.py: the order of conversation messages           *)
(***************************************************************************)

MaxLog == 3             \* rows of conversation_history
MaxSeconds == 2         \* seconds on the storage clock
\* get_conversation_history(session_id, limit=50)
DefaultLimit == 50
Limits == {1, DefaultLimit}
LogSessions == {"s1", "s2"}

LogRow(id, session_id, message_type, timestamp) ==
    [id |-> id, session_id |-> session_id, message_type |-> message_type,
     timestamp |-> timestamp]

\* save_conversation_message: INSERT; the timestamp column defaults to
\* CURRENT_TIMESTAMP, which has a resolution of one second.
SaveConversationMessage(session_id, message_type) ==
    /\ Len(message_log) < MaxLog
    /\ message_log' = Append(message_log,
            LogRow(Len(message_log) + 1, session_id, message_type, storage_clock))
    /\ UNCHANGED <<storage_clock, historyLast>>

\* A second passes.
StorageTick ==
    /\ storage_clock < MaxSeconds
    /\ storage_clock' = storage_clock + 1
    /\ UNCHANGED <<message_log, historyLast>>

\* SELECT ... WHERE session_id = ? ORDER BY timestamp DESC: the rows of the
\* session, newest first; rows of one timestamp come in an order SQL leaves open.
OrderedByTimestampDesc(session_id) ==
    LET ids == {i \in 1..Len(message_log) : message_log[i].session_id = session_id}
        n   == Cardinality(ids)
    IN  {order \in [1..n -> ids] :
            /\ \A i, j \in 1..n : i # j => order[i] # order[j]
            /\ \A i, j \in 1..n :
                   i < j => message_log[order[i]].timestamp >= message_log[order[j]].timestamp}

\* LIMIT ?
Limit(rows, limit) == [i \in 1..(IF Len(rows) < limit THEN Len(rows) ELSE limit) |-> rows[i]]
\* list(reversed(messages))
Reversed(messages) == [i \in 1..Len(messages) |-> messages[Len(messages) + 1 - i]]

HistoryRecord(session_id, limit, messages) ==
    [session_id |-> session_id, limit |-> limit, messages |-> messages]

\* get_conversation_history(session_id, limit)
GetConversationHistory(session_id, limit) ==
    /\ \E order \in OrderedByTimestampDesc(session_id) :
          historyLast' = HistoryRecord(session_id, limit,
                [i \in 1..Len(Reversed(Limit(order, limit))) |->
                    message_log[Reversed(Limit(order, limit))[i]]])
    /\ UNCHANGED <<message_log, storage_clock>>

HistoryInit ==
    /\ message_log = <<>>
    /\ storage_clock = 0
    /\ historyLast = HistoryRecord(None, 0, <<>>)

HistoryIdle == HistoryInit

(***************************************************************************)
(*     session_manager.py: the cleanup thread and the shutdown paths       *)
(***************************************************************************)

\* range(self.cleanup_interval_minutes * 60): the seconds of one waiting round
MaxWait == 3
\* time.sleep(60) after a failed sweep
RetryDelay == 60
\* atexit.register(self._safe_shutdown), __del__, and a call of _safe_shutdown
Paths == {"atexit", "__del__", "direct"}

\* The exit hook or a direct call enters _safe_shutdown; __del__ enters it
\* only if it does not see the flag set.
CallShutdown(p) ==
    /\ shutdown_pc[p] = "idle"
    /\ shutdown_pc' = [shutdown_pc EXCEPT ![p] =
            IF p = "__del__" /\ _shutdown_requested THEN "done" ELSE "called"]
    /\ UNCHANGED <<_shutdown_requested, cleanup_running, final_saves, cleanup_pc,
                   cleanup_i, retry_left, slept_after_request>>

\* _safe_shutdown: if self._shutdown_requested: return
CheckRequested(p) ==
    /\ shutdown_pc[p] = "called"
    /\ shutdown_pc' = [shutdown_pc EXCEPT ![p] =
            IF _shutdown_requested THEN "done" ELSE "checked"]
    /\ UNCHANGED <<_shutdown_requested, cleanup_running, final_saves, cleanup_pc,
                   cleanup_i, retry_left, slept_after_request>>

\* _safe_shutdown: print(...); self._shutdown_requested = True
RequestShutdown(p) ==
    /\ shutdown_pc[p] = "checked"
    /\ _shutdown_requested' = TRUE
    /\ shutdown_pc' = [shutdown_pc EXCEPT ![p] = "requested"]
    /\ UNCHANGED <<cleanup_running, final_saves, cleanup_pc, cleanup_i, retry_left,
                   slept_after_request>>

\* _safe_shutdown: self.cleanup_running = False
StopCleanup(p) ==
    /\ shutdown_pc[p] = "requested"
    /\ cleanup_running' = FALSE
    /\ shutdown_pc' = [shutdown_pc EXCEPT ![p] = "stopped"]
    /\ UNCHANGED <<_shutdown_requested, final_saves, cleanup_pc, cleanup_i, retry_left,
                   slept_after_request>>

\* _safe_shutdown: self.cleanup_thread.join(timeout=2.0) returns when the
\* thread has ended or when the timeout has passed.
JoinCleanup(p) ==
    /\ shutdown_pc[p] = "stopped"
    /\ shutdown_pc' = [shutdown_pc EXCEPT ![p] = "joined"]
    /\ UNCHANGED <<_shutdown_requested, cleanup_running, final_saves, cleanup_pc,
                   cleanup_i, retry_left, slept_after_request>>

\* _safe_shutdown: the final self._save_sessions()
FinalSave(p) ==
    /\ shutdown_pc[p] = "joined"
    /\ final_saves' = final_saves + 1
    /\ shutdown_pc' = [shutdown_pc EXCEPT ![p] = "done"]
    /\ UNCHANGED <<_shutdown_requested, cleanup_running, cleanup_pc, cleanup_i,
                   retry_left, slept_after_request>>

CallersUnchanged == UNCHANGED <<_shutdown_requested, cleanup_running, shutdown_pc, final_saves>>

\* A second of sleep of the cleanup thread; it counts once shutdown is requested.
SleptOneSecond == IF _shutdown_requested THEN slept_after_request + 1 ELSE slept_after_request

\* _cleanup_loop: while self.cleanup_running and not self._shutdown_requested
LoopWhile ==
    /\ cleanup_pc = "while"
    /\ cleanup_pc' = IF cleanup_running /\ ~_shutdown_requested THEN "for" ELSE "exited"
    /\ cleanup_i' = 0
    /\ UNCHANGED <<retry_left, slept_after_request>>
    /\ CallersUnchanged

\* _cleanup_loop: for _ in range(...): if self._shutdown_requested: break
LoopFor ==
    /\ cleanup_pc = "for"
    /\ cleanup_pc' = IF cleanup_i = MaxWait \/ _shutdown_requested THEN "if" ELSE "sleep"
    /\ UNCHANGED <<cleanup_i, retry_left, slept_after_request>>
    /\ CallersUnchanged

\* _cleanup_loop: time.sleep(1)
LoopSleep ==
    /\ cleanup_pc = "sleep"
    /\ cleanup_pc' = "for"
    /\ cleanup_i' = cleanup_i + 1
    /\ slept_after_request' = SleptOneSecond
    /\ UNCHANGED retry_left
    /\ CallersUnchanged

\* _cleanup_loop: if not self._shutdown_requested: (sweep)
LoopIf ==
    /\ cleanup_pc = "if"
    /\ cleanup_pc' = IF _shutdown_requested THEN "while" ELSE "sweep"
    /\ UNCHANGED <<cleanup_i, retry_left, slept_after_request>>
    /\ CallersUnchanged

\* _cleanup_loop: self._cleanup_expired_sessions() returns, or an exception
\* leaves it and the handler of the loop prints it and starts time.sleep(60).
LoopSweep ==
    /\ cleanup_pc = "sweep"
    /\ \/ cleanup_pc' = "while" /\ UNCHANGED retry_left
       \/ cleanup_pc' = "retry" /\ retry_left' = RetryDelay
    /\ UNCHANGED <<cleanup_i, slept_after_request>>
    /\ CallersUnchanged

\* _cleanup_loop: a second of time.sleep(60)
LoopRetry ==
    /\ cleanup_pc = "retry"
    /\ retry_left' = retry_left - 1
    /\ cleanup_pc' = IF retry_left = 1 THEN "while" ELSE "retry"
    /\ slept_after_request' = SleptOneSecond
    /\ UNCHANGED cleanup_i
    /\ CallersUnchanged

\* __init__ with auto_cleanup in the main thread: the thread is started and
\* the exit hook registered.
ShutdownInit ==
    /\ _shutdown_requested = FALSE
    /\ cleanup_running = TRUE
    /\ shutdown_pc = [p \in Paths |-> "idle"]
    /\ final_saves = 0
    /\ cleanup_pc = "while"
    /\ cleanup_i = 0
    /\ retry_left = 0
    /\ slept_after_request = 0

ShutdownIdle == ShutdownInit

(***************************************************************************)
(*        session_manager.py: the session map and the session file         *)
(***************************************************************************)

MaxSaves == 4           \* saves of the session file per run
MaxWall == 48           \* the last hour of the run
ClockStep == 24         \* hours between two readings of the clock
MaxIds == 2             \* session ids drawn per run
SessionUsers == {"u1", "u2"}
\* timedelta(hours=24) in create_session
WorkSessionLifetime == 24

SessionData(session_id, user_id, at) ==
    [session_id |-> session_id, user_id |-> user_id, created_at |-> at,
     last_accessed |-> at, expires_at |-> at + WorkSessionLifetime]

\* self.sessions[session_id] = session_data
Put(map, id, row) == [k \in DOMAIN map \cup {id} |-> IF k = id THEN row ELSE map[k]]
\* del self.sessions[session_id]
Del(map, id) == [k \in DOMAIN map \ {id} |-> map[k]]

File(exists, data) == [exists |-> exists, data |-> data]
NoFile == File(FALSE, <<>>)

\* A rotation that moves backup1 to backup2 first and backup2 to backup3 after.
RotatedForward ==
    IF backups[1].exists
    THEN [i \in 1..3 |-> CASE i = 3 -> backups[1]
                           [] i = 2 -> backups[1]
                           [] OTHER -> session_file]
    ELSE [backups EXCEPT ![1] = session_file]

\* The rotation of _save_sessions: backup2 becomes backup3 and backup1 becomes
\* backup2 (only if backup1 exists), then the session file is copied to backup1.
Rotated ==
    IF backups[1].exists
    THEN [i \in 1..3 |-> CASE i = 3 -> IF backups[2].exists THEN backups[2] ELSE backups[3]
                           [] i = 2 -> backups[1]
                           [] OTHER -> session_file]
    ELSE [backups EXCEPT ![1] = session_file]

\* _save_sessions, writing the given map
SaveSessions(map) ==
    /\ backups' = IF session_file.exists THEN Rotated ELSE backups
    /\ session_file' = File(TRUE, map)
    /\ written' = Append(written, map)

CanSave == Len(written) < MaxSaves

\* The iteration of the cleanup pass over self.sessions.items() fails at its
\* next step once the size of the map has changed. Between two steps of the
\* iteration at most one call of a request thread changes the size.
MapStable == pass.pc # "iterating" \/ Cardinality(DOMAIN sessions) = pass.used

LookupRecord(op, arg, result) == [op |-> op, arg |-> arg, result |-> result, at |-> wall]

\* create_session(user_id, session_data)
CreateSession(user_id) ==
    /\ CanSave /\ MapStable
    /\ next_session < MaxIds
    /\ next_session' = next_session + 1
    /\ sessions' = Put(sessions, next_session + 1, SessionData(next_session + 1, user_id, wall))
    /\ SaveSessions(sessions')
    /\ UNCHANGED <<wall, pass, sessionsLast>>

\* get_session(session_id)
GetSession(session_id) ==
    IF session_id \in DOMAIN sessions
    THEN /\ CanSave
         /\ IF wall > sessions[session_id].expires_at
            THEN /\ MapStable
                 /\ sessions' = Del(sessions, session_id)
                 /\ sessionsLast' = LookupRecord("get_session", session_id, {})
            ELSE /\ sessions' = [sessions EXCEPT ![session_id].last_accessed = wall]
                 /\ sessionsLast' = LookupRecord("get_session", session_id,
                                                 {sessions'[session_id]})
         /\ SaveSessions(sessions')
         /\ UNCHANGED <<wall, next_session, pass>>
    ELSE /\ sessionsLast' = LookupRecord("get_session", session_id, {})
         /\ UNCHANGED <<sessions, session_file, backups, written, wall, next_session, pass>>

\* delete_session(session_id)
DeleteSession(session_id) ==
    /\ session_id \in DOMAIN sessions
    /\ CanSave /\ MapStable
    /\ sessions' = Del(sessions, session_id)
    /\ SaveSessions(sessions')
    /\ UNCHANGED <<wall, next_session, pass, sessionsLast>>

\* get_user_sessions(user_id)
GetUserSessions(user_id) ==
    /\ sessionsLast' = LookupRecord("get_user_sessions", user_id,
            {sessions[id] : id \in {k \in DOMAIN sessions : sessions[k].user_id = user_id}})
    /\ UNCHANGED <<sessions, session_file, backups, written, wall, next_session, pass>>

\* Time passes.
WallTick ==
    /\ wall < MaxWall
    /\ wall' = wall + ClockStep
    /\ UNCHANGED <<sessions, session_file, backups, written, next_session, pass, sessionsLast>>

ExpiredAt(map, at) == {id \in DOMAIN map : at > map[id].expires_at}

PassRecord(pc, at, used, todo, expired_sessions, removed, at_start, outcome) ==
    [pc |-> pc, now |-> at, used |-> used, todo |-> todo,
     expired_sessions |-> expired_sessions, removed |-> removed,
     at_start |-> at_start, outcome |-> outcome]
NoPass == PassRecord("idle", 0, 0, {}, <<>>, 0, {}, "none")

Least(S) == CHOOSE x \in S : \A y \in S : x <= y

\* _cleanup_expired_sessions: now = datetime.now() and the start of the
\* iteration over self.sessions.items()
PassStart ==
    /\ pass.pc \in {"idle", "done"}
    /\ pass' = PassRecord("iterating", wall, Cardinality(DOMAIN sessions), DOMAIN sessions,
                          <<>>, 0, ExpiredAt(sessions, wall), "running")
    /\ UNCHANGED <<sessions, session_file, backups, written, wall, next_session, sessionsLast>>

\* _cleanup_expired_sessions: one step of the iteration. A map whose size has
\* changed raises RuntimeError, which the method catches and prints.
PassNext ==
    /\ pass.pc = "iterating"
    /\ pass' =
         IF Cardinality(DOMAIN sessions) # pass.used
         THEN [pass EXCEPT !.pc = "done", !.outcome = "error"]
         ELSE IF pass.todo = {}
         THEN [pass EXCEPT !.pc = "removing"]
         ELSE LET id == Least(pass.todo)
              IN  [pass EXCEPT !.todo = pass.todo \ {id},
                               !.expired_sessions =
                                   IF pass.now > sessions[id].expires_at
                                   THEN Append(pass.expired_sessions, id)
                                   ELSE pass.expired_sessions]
    /\ UNCHANGED <<sessions, session_file, backups, written, wall, next_session, sessionsLast>>

\* _cleanup_expired_sessions: for session_id in expired_sessions:
\* del self.sessions[session_id]. A session that is no longer in the map
\* raises KeyError, which the method catches and prints.
PassRemove ==
    /\ pass.pc = "removing"
    /\ IF pass.removed = Len(pass.expired_sessions)
       THEN /\ pass' = IF pass.expired_sessions = <<>>
                       THEN [pass EXCEPT !.pc = "done", !.outcome = "ok"]
                       ELSE [pass EXCEPT !.pc = "saving"]
            /\ UNCHANGED sessions
       ELSE LET id == pass.expired_sessions[pass.removed + 1]
            IN  IF id \in DOMAIN sessions
                THEN /\ sessions' = Del(sessions, id)
                     /\ pass' = [pass EXCEPT !.removed = pass.removed + 1]
                ELSE /\ pass' = [pass EXCEPT !.pc = "done", !.outcome = "error"]
                     /\ UNCHANGED sessions
    /\ UNCHANGED <<session_file, backups, written, wall, next_session, sessionsLast>>

\* _cleanup_expired_sessions: if expired_sessions: self._save_sessions()
PassSave ==
    /\ pass.pc = "saving"
    /\ CanSave
    /\ SaveSessions(sessions)
    /\ pass' = [pass EXCEPT !.pc = "done", !.outcome = "ok"]
    /\ UNCHANGED <<sessions, wall, next_session, sessionsLast>>

\* __init__ without a session file: _load_sessions starts with an empty map.
SessionsInit ==
    /\ sessions = <<>>
    /\ session_file = NoFile
    /\ backups = [i \in 1..3 |-> NoFile]
    /\ written = <<>>
    /\ wall = 0
    /\ next_session = 0
    /\ pass = NoPass
    /\ sessionsLast = [op |-> "none", arg |-> 0, result |-> {}, at |-> 0]

SessionsIdle == SessionsInit

(***************************************************************************)
(*      core/bot_engine.py: get_user_projects calls that run together      *)
(***************************************************************************)

Callers == {"c1", "c2"}

Call(pc, user_id, found) == [pc |-> pc, user_id |-> user_id, found |-> found]
NoCall == Call("idle", NullUser, {})

\* get_user_projects(user_id), up to conn.close(): the SELECT.
ListSelect(c, user_id) ==
    /\ listing[c].pc = "idle"
    /\ listing' = [listing EXCEPT ![c] = Call("selected", user_id, VisibleTo(user_id))]
    /\ UNCHANGED projVars

\* The id of create_project is a hash of user, name and datetime.now(): a second
\* create_project for the same user and name at the same reading of the clock
\* draws the id of the first, and its INSERT fails on the primary key.
SameInstant(c) ==
    \E row \in projects \ listing[c].found :
        row.user_id = listing[c].user_id /\ row.name = DemoName

\* get_user_projects, from "if not projects:" to the return: with no row found
\* the demo project is created by create_project, whatever has been inserted
\* since the SELECT.
ListSeed(c) ==
    LET user_id == listing[c].user_id
        found   == listing[c].found
        demo    == NewProject(user_id, DemoName, DemoDescription, "python")
    IN  /\ listing[c].pc = "selected"
        /\ listing' = [listing EXCEPT ![c].pc = "done"]
        /\ IF NeedsDemo(found)
           THEN \/ /\ next_id <= MaxProjects
                   /\ projects' = projects \cup {demo}
                   /\ next_id' = next_id + 1
                   /\ demo_seeded' = [demo_seeded EXCEPT ![user_id] = @ + 1]
                   /\ projLast' = ProjRecord("list", user_id, 0, NoKwargs, "success",
                                             {ProjectDict(demo)}, TRUE, FALSE)
                   /\ UNCHANGED db_clock
                \/ /\ SameInstant(c)
                   /\ projLast' = ProjRecord("list", user_id, 0, NoKwargs, "success",
                                             {}, FALSE, FALSE)
                   /\ UNCHANGED <<projects, next_id, db_clock, demo_seeded>>
           ELSE /\ projLast' = ProjRecord("list", user_id, 0, NoKwargs, "success",
                                          {ProjectDict(row) : row \in found}, FALSE, FALSE)
                /\ UNCHANGED <<projects, next_id, db_clock, demo_seeded>>

\* The caller has its list and may call again.
ListReturn(c) ==
    /\ listing[c].pc = "done"
    /\ listing' = [listing EXCEPT ![c] = NoCall]
    /\ UNCHANGED projVars

SeedIdle == listing = [c \in Callers |-> NoCall]

AuthFrame == UNCHANGED <<parseVars, projVars, webVars, engineVars, registryVars, migrateVars, bootVars, settingsVars, historyVars, shutdownVars, sessionsVars, seedVars>>

NextAuth ==
    \/ \E n \in LoginNames, p \in Passwords : AuthenticateUser(n, p) /\ AuthFrame
    \/ \E n \in LoginNames, p \in Passwords : LoginUser(n, p) /\ AuthFrame
    \/ \E t \in 0..Len(user_sessions) : ValidateSession(t) /\ AuthFrame
    \/ \E t \in 0..Len(user_sessions) : LogoutUser(t) /\ AuthFrame
    \/ \E d \in TickSteps : Tick(d) /\ AuthFrame

InitAuth == AuthInit /\ ParseIdle /\ ProjIdle /\ WebIdle /\ EngineIdle /\ RegistryIdle /\ MigrateIdle /\ BootIdle /\ SettingsIdle /\ HistoryIdle /\ ShutdownIdle /\ SessionsIdle /\ SeedIdle

SpecAuth == InitAuth /\ [][NextAuth]_vars

ParseFrame == UNCHANGED <<authVars, projVars, webVars, engineVars, registryVars, migrateVars, bootVars, settingsVars, historyVars, shutdownVars, sessionsVars, seedVars>>

NextParse ==
    \/ ParseCodeReviewResponse /\ ParseFrame

InitParse == AuthIdle /\ ParseInit /\ ProjIdle /\ WebIdle /\ EngineIdle /\ RegistryIdle /\ MigrateIdle /\ BootIdle /\ SettingsIdle /\ HistoryIdle /\ ShutdownIdle /\ SessionsIdle /\ SeedIdle

SpecParse == InitParse /\ [][NextParse]_vars

ProjFrame == UNCHANGED <<authVars, parseVars, webVars, engineVars, registryVars, migrateVars, bootVars, settingsVars, historyVars, shutdownVars, sessionsVars, seedVars>>

NextProjects ==
    \/ \E u \in ProjectUsers : GetUserProjects(u) /\ ProjFrame
    \/ \E u \in ProjectUsers, n \in ProjectNames : CreateProject(u, n) /\ ProjFrame
    \/ \E pid \in 1..MaxProjects, u \in ProjectUsers, k \in Kwargs :
          UpdateProject(pid, u, k) /\ ProjFrame
    \/ \E pid \in 1..MaxProjects, u \in ProjectUsers : DeleteProject(pid, u) /\ ProjFrame

InitProjects == AuthIdle /\ ParseIdle /\ ProjIdle /\ WebIdle /\ EngineIdle /\ RegistryIdle /\ MigrateIdle /\ BootIdle /\ SettingsIdle /\ HistoryIdle /\ ShutdownIdle /\ SessionsIdle /\ SeedIdle

SpecProjects == InitProjects /\ [][NextProjects]_vars

\* What no handler writes.
WebFrame == UNCHANGED <<user_sessions, now, tz, ticks, loggedOut, authLast, parseVars,
                        session_manager, engineVars, registryVars, migrateVars, bootVars, settingsVars, historyVars, shutdownVars, sessionsVars, seedVars>>
\* The stores a handler leaves alone.
NoUsers    == UNCHANGED users
NoProjects == UNCHANGED projVars
NoSessions == UNCHANGED <<work_sessions, conversation_history>>
NoReviews  == UNCHANGED code_reviews
NoChats    == UNCHANGED chat_history
NoStores   == NoUsers /\ NoProjects /\ NoSessions /\ NoReviews /\ NoChats

NextWeb ==
    \/ \E b \in Browsers, n \in {"", "admin", "alice"}, p \in {"admin123", "secret1"},
          r \in {Absent} :
          Login(b, n, p, r) /\ NoUsers /\ NoProjects /\ NoReviews /\ NoChats /\ WebFrame
    \/ \E b \in Browsers : AppInterface(b) /\ NoStores /\ WebFrame
    \/ \E b \in Browsers : ChatInterface(b) /\ NoStores /\ WebFrame
    \/ \E b \in Browsers, form \in RegisterForms :
          Register(b, form) /\ NoProjects /\ NoSessions /\ NoReviews /\ NoChats /\ WebFrame
    \/ \E b \in Browsers, n \in CheckedNames :
          CheckUsername(b, n) /\ UNCHANGED flask /\ NoStores /\ WebFrame
    \/ \E b \in Browsers : Logout(b) /\ NoStores /\ WebFrame
    \/ \E b \in Browsers : ApiLogout(b) /\ NoStores /\ WebFrame
    \/ \E b \in Browsers : ApiSessionRecovery(b) /\ UNCHANGED flask /\ NoStores /\ WebFrame
    \/ \E b \in Browsers, sid \in 0..MaxWorkSessions :
          ApiResumeSession(b, sid) /\ UNCHANGED conversation_history
              /\ NoUsers /\ NoProjects /\ NoReviews /\ NoChats /\ WebFrame
    \/ \E b \in Browsers, name \in {"", "P"} :
          ApiCreateSession(b, name) /\ NoUsers /\ NoProjects /\ NoReviews /\ NoChats /\ WebFrame
    \/ \E b \in Browsers : ApiSmartSuggestions(b) /\ UNCHANGED flask /\ NoStores /\ WebFrame
    \/ \E b \in Browsers, m \in {"", "hi"}, saved \in BOOLEAN :
          ApiChat(b, m, saved) /\ UNCHANGED flask /\ NoUsers /\ NoProjects /\ NoReviews /\ WebFrame
    \/ \E b \in Browsers :
          GetProjectsApi(b) /\ UNCHANGED flask /\ NoUsers /\ NoSessions /\ NoReviews /\ NoChats
              /\ WebFrame
    \/ \E b \in Browsers, name \in {"", "X"} :
          CreateProjectApi(b, name) /\ UNCHANGED flask /\ NoUsers /\ NoSessions /\ NoReviews
              /\ NoChats /\ WebFrame
    \/ \E b \in Browsers, pid \in 1..MaxProjects, k \in {k \in Kwargs : k.name = Absent /\ k.data = Absent} :
          UpdateProjectApi(b, pid, k) /\ UNCHANGED flask /\ NoUsers /\ NoSessions /\ NoReviews
              /\ NoChats /\ WebFrame
    \/ \E b \in Browsers, pid \in 1..MaxProjects :
          DeleteProjectApi(b, pid) /\ UNCHANGED flask /\ NoUsers /\ NoSessions /\ NoReviews
              /\ NoChats /\ WebFrame
    \/ \E b \in Browsers, code \in {"", "x = 1"}, analysed \in BOOLEAN :
          ApiCodeReview(b, code, analysed) /\ UNCHANGED <<flask, conversation_history>>
              /\ NoUsers /\ NoProjects /\ NoChats /\ WebFrame
    \/ \E b \in Browsers : ApiMetrics(b) /\ UNCHANGED flask /\ NoStores /\ WebFrame

InitWeb == AuthIdle /\ ParseIdle /\ ProjIdle /\ WebInit /\ EngineIdle /\ RegistryIdle /\ MigrateIdle /\ BootIdle /\ SettingsIdle /\ HistoryIdle /\ ShutdownIdle /\ SessionsIdle /\ SeedIdle

SpecWeb == InitWeb /\ [][NextWeb]_vars

\* The login route and the handlers that write what it reads: the users, the work
\* sessions, their messages and their code reviews.
NextRecovery ==
    \/ \E b \in Browsers, n \in {"", "admin", "alice"}, p \in {"admin123", "secret1"},
          r \in RedirectArgs :
          Login(b, n, p, r) /\ NoUsers /\ NoProjects /\ NoReviews /\ NoChats /\ WebFrame
    \/ \E b \in Browsers : AppInterface(b) /\ NoStores /\ WebFrame
    \/ \E b \in Browsers, form \in RegisterForms :
          Register(b, form) /\ NoProjects /\ NoSessions /\ NoReviews /\ NoChats /\ WebFrame
    \/ \E b \in Browsers : Logout(b) /\ NoStores /\ WebFrame
    \/ \E b \in Browsers, name \in {"", "P"} :
          ApiCreateSession(b, name) /\ NoUsers /\ NoProjects /\ NoReviews /\ NoChats /\ WebFrame
    \/ \E b \in Browsers, m \in {"", "hi"}, saved \in BOOLEAN :
          ApiChat(b, m, saved) /\ UNCHANGED flask /\ NoUsers /\ NoProjects /\ NoReviews /\ WebFrame
    \/ \E b \in Browsers, code \in {"", "x = 1"}, analysed \in BOOLEAN :
          ApiCodeReview(b, code, analysed) /\ UNCHANGED <<flask, conversation_history>>
              /\ NoUsers /\ NoProjects /\ NoChats /\ WebFrame

InitRecovery ==
    AuthIdle /\ ParseIdle /\ ProjIdle /\ WebInit /\ EngineIdle /\ RegistryIdle /\ MigrateIdle
        /\ BootIdle /\ SettingsInit /\ HistoryIdle /\ ShutdownIdle /\ SessionsIdle /\ SeedIdle

SpecRecovery == InitRecovery /\ [][NextRecovery]_vars

EngineFrame == UNCHANGED <<authVars, parseVars, projVars, flask, session_manager,
                           work_sessions, conversation_history, code_reviews, webLast,
                           registryVars, migrateVars, bootVars, settingsVars, historyVars, shutdownVars, sessionsVars, seedVars>>

NextEngine ==
    \/ \E m \in Messages, c \in Contexts, primary_ok \in BOOLEAN, fallback_ok \in BOOLEAN :
          ProcessMessage(m, c, primary_ok, fallback_ok) /\ EngineFrame
    \/ \E ok \in BOOLEAN : AnalyzeCode(ok) /\ EngineFrame

InitEngine == AuthIdle /\ ParseIdle /\ ProjIdle /\ WebIdle /\ EngineInit /\ RegistryIdle /\ MigrateIdle /\ BootIdle /\ SettingsIdle /\ HistoryIdle /\ ShutdownIdle /\ SessionsIdle /\ SeedIdle

SpecEngine == InitEngine /\ [][NextEngine]_vars

RegistryFrame == UNCHANGED <<authVars, parseVars, projVars, webVars, engineVars,
                             migrateVars, bootVars, settingsVars, historyVars, shutdownVars, sessionsVars, seedVars>>

NextRegistry ==
    \/ \E d \in 1..MaxDay : d >= today /\ CheckForModelUpdates(d) /\ RegistryFrame
    \/ \E name \in ForcedNames : ForceModelUpdate(name) /\ RegistryFrame

InitRegistry ==
    AuthIdle /\ ParseIdle /\ ProjIdle /\ WebIdle /\ EngineIdle /\ RegistryInit /\ MigrateIdle /\ BootIdle /\ SettingsIdle /\ HistoryIdle /\ ShutdownIdle /\ SessionsIdle /\ SeedIdle

SpecRegistry == InitRegistry /\ [][NextRegistry]_vars

ConfigFrame == UNCHANGED <<authVars, parseVars, projVars, webVars, engineVars,
                           migrateVars, bootVars, ENABLE_USER_REGISTRATION,
                           historyVars, shutdownVars, sessionsVars, seedVars>>

NextConfig ==
    \/ \E d \in 1..MaxDay : d >= today /\ SmartConfigInit(d) /\ ConfigFrame
    \/ \E d \in 1..MaxDay : d >= today /\ ManualCheck(d) /\ ConfigFrame
    \/ \E name \in ForcedNames : SetClaudeModel(name) /\ ConfigFrame

InitConfig ==
    AuthIdle /\ ParseIdle /\ ProjIdle /\ WebIdle /\ EngineIdle /\ RegistryInit /\ MigrateIdle /\ BootIdle /\ SmartConfigStart /\ HistoryIdle /\ ShutdownIdle /\ SessionsIdle /\ SeedIdle

SpecConfig == InitConfig /\ [][NextConfig]_vars

MigrateFrame == UNCHANGED <<authVars, parseVars, projVars, webVars, engineVars,
                            registryVars, bootVars, settingsVars, historyVars, shutdownVars, sessionsVars, seedVars>>

NextMigrate == MigrateDatabase /\ MigrateFrame

InitMigrate ==
    AuthIdle /\ ParseIdle /\ ProjIdle /\ WebIdle /\ EngineIdle /\ RegistryIdle /\ MigrateInit /\ BootIdle /\ SettingsIdle /\ HistoryIdle /\ ShutdownIdle /\ SessionsIdle /\ SeedIdle

SpecMigrate == InitMigrate /\ [][NextMigrate]_vars

AccountsFrame == UNCHANGED <<parseVars, projVars, webVars, engineVars, registryVars,
                             migrateVars, settingsVars, historyVars, shutdownVars, sessionsVars, seedVars>>
NoClock == UNCHANGED <<now, tz, ticks, loggedOut>>

NextAccounts ==
    \/ \E i \in Instances : InitDatabase(i) /\ UNCHANGED user_sessions /\ NoClock /\ AccountsFrame
    \/ \E i \in Instances : CountAdmins(i) /\ UNCHANGED user_sessions /\ NoClock /\ AccountsFrame
    \/ \E i \in Instances :
          CreateDefaultAdmin(i) /\ UNCHANGED user_sessions /\ NoClock /\ AccountsFrame
    \/ \E i \in Instances : Restart(i) /\ UNCHANGED user_sessions /\ NoClock /\ AccountsFrame
    \/ \E n \in RegisterNames, e \in RegisterEmails, p \in RegisterPasswords :
          RegisterUser(n, e, p) /\ UNCHANGED user_sessions /\ NoClock /\ AccountsFrame
    \/ \E n \in {"admin", "nobody", "bob"}, p \in {"admin123", "secret1"} :
          Ready /\ AuthenticateUser(n, p) /\ UNCHANGED boot /\ AccountsFrame
    \/ \E n \in {"admin", "nobody", "bob"}, p \in {"admin123", "secret1"} :
          Ready /\ LoginUser(n, p) /\ UNCHANGED boot /\ AccountsFrame

InitAccounts ==
    AccountsInit /\ ParseIdle /\ ProjIdle /\ WebIdle /\ EngineIdle /\ RegistryIdle /\ MigrateIdle
        /\ SettingsIdle /\ HistoryIdle /\ ShutdownIdle /\ SessionsIdle /\ SeedIdle

SpecAccounts == InitAccounts /\ [][NextAccounts]_vars

HistoryFrame == UNCHANGED <<authVars, parseVars, projVars, webVars, engineVars, registryVars,
                            migrateVars, bootVars, settingsVars, shutdownVars, sessionsVars, seedVars>>

NextHistory ==
    \/ \E sid \in LogSessions, type \in {"user", "assistant"} :
          SaveConversationMessage(sid, type) /\ HistoryFrame
    \/ StorageTick /\ HistoryFrame
    \/ \E sid \in LogSessions, limit \in Limits :
          GetConversationHistory(sid, limit) /\ HistoryFrame

InitHistory ==
    AuthIdle /\ ParseIdle /\ ProjIdle /\ WebIdle /\ EngineIdle /\ RegistryIdle /\ MigrateIdle
        /\ BootIdle /\ SettingsIdle /\ HistoryInit /\ ShutdownIdle /\ SessionsIdle /\ SeedIdle

SpecHistory == InitHistory /\ [][NextHistory]_vars

ShutdownFrame == UNCHANGED <<authVars, parseVars, projVars, webVars, engineVars, registryVars,
                             migrateVars, bootVars, settingsVars, historyVars, sessionsVars, seedVars>>

NextShutdown ==
    \/ \E p \in Paths : CallShutdown(p) /\ ShutdownFrame
    \/ \E p \in Paths : CheckRequested(p) /\ ShutdownFrame
    \/ \E p \in Paths : RequestShutdown(p) /\ ShutdownFrame
    \/ \E p \in Paths : StopCleanup(p) /\ ShutdownFrame
    \/ \E p \in Paths : JoinCleanup(p) /\ ShutdownFrame
    \/ \E p \in Paths : FinalSave(p) /\ ShutdownFrame
    \/ LoopWhile /\ ShutdownFrame
    \/ LoopFor /\ ShutdownFrame
    \/ LoopSleep /\ ShutdownFrame
    \/ LoopIf /\ ShutdownFrame
    \/ LoopSweep /\ ShutdownFrame
    \/ LoopRetry /\ ShutdownFrame

InitShutdown ==
    AuthIdle /\ ParseIdle /\ ProjIdle /\ WebIdle /\ EngineIdle /\ RegistryIdle /\ MigrateIdle
        /\ BootIdle /\ SettingsIdle /\ HistoryIdle /\ ShutdownInit /\ SessionsIdle /\ SeedIdle

SpecShutdown == InitShutdown /\ [][NextShutdown]_vars

SessionsFrame == UNCHANGED <<authVars, parseVars, projVars, webVars, engineVars, registryVars,
                             migrateVars, bootVars, settingsVars, historyVars, shutdownVars, seedVars>>

NextSessions ==
    \/ \E u \in SessionUsers : CreateSession(u) /\ SessionsFrame
    \/ \E id \in 1..MaxIds : GetSession(id) /\ SessionsFrame
    \/ \E id \in 1..MaxIds : DeleteSession(id) /\ SessionsFrame
    \/ \E u \in SessionUsers : GetUserSessions(u) /\ SessionsFrame
    \/ WallTick /\ SessionsFrame
    \/ PassStart /\ SessionsFrame
    \/ PassNext /\ SessionsFrame
    \/ PassRemove /\ SessionsFrame
    \/ PassSave /\ SessionsFrame

InitSessions ==
    AuthIdle /\ ParseIdle /\ ProjIdle /\ WebIdle /\ EngineIdle /\ RegistryIdle /\ MigrateIdle
        /\ BootIdle /\ SettingsIdle /\ HistoryIdle /\ ShutdownIdle /\ SessionsInit /\ SeedIdle

SpecSessions == InitSessions /\ [][NextSessions]_vars

SeedFrame == UNCHANGED <<authVars, parseVars, webVars, engineVars, registryVars, migrateVars,
                         bootVars, settingsVars, historyVars, shutdownVars, sessionsVars>>

NextSeed ==
    \/ \E c \in Callers, u \in ProjectUsers : ListSelect(c, u) /\ SeedFrame
    \/ \E c \in Callers : ListSeed(c) /\ SeedFrame
    \/ \E c \in Callers : ListReturn(c) /\ SeedFrame

InitSeed == AuthIdle /\ ParseIdle /\ ProjIdle /\ WebIdle /\ EngineIdle /\ RegistryIdle /\ MigrateIdle /\ BootIdle /\ SettingsIdle /\ HistoryIdle /\ ShutdownIdle /\ SessionsIdle /\ SeedIdle

SpecSeed == InitSeed /\ [][NextSeed]_vars

(***************************************************************************)
(*                  Properties of auth_system.py (SpecAuth)                *)
(***************************************************************************)

IsLoginAttempt == authLast.op \in {"authenticate", "login"}

\* C1: the 5th failed login attempt for a username within the lockout window
\* still has its credentials evaluated, and a 6th attempt within the window is
\* rejected as rate-limited, even if its password is correct.
C1_RateLimited ==
    IsLoginAttempt =>
        /\ authLast.prior < 5 => authLast.result # "rate_limited"
        /\ authLast.prior >= 5 => authLast.result = "rate_limited"

\* A 6th attempt, right after five failed ones, logs in with the correct password.
C1_SixthAttemptLogsIn ==
    /\ authLast.op = "login"
    /\ authLast.prior = 5
    /\ authLast.result = "success"

ValidatedRow == user_sessions[authLast.token]
IsValidation == authLast.op = "validate" /\ authLast.token \in 1..Len(user_sessions)

\* C2: validate_session(token) called at host time T returns the user only if
\* the token exists, is active and has not passed its expiry: a session whose
\* expires_at is T - 1 is unauthenticated, an active one whose expires_at is
\* T + 1 is valid.
C2_ExpiryAtHostTime ==
    /\ authLast.op = "validate" /\ authLast.result # None =>
          /\ authLast.token \in 1..Len(user_sessions)
          /\ ValidatedRow.is_active
          /\ ValidatedRow.expires_at >= LocalNow
    /\ IsValidation /\ ValidatedRow.expires_at = LocalNow - 1 =>
          authLast.result = None
    /\ IsValidation /\ ValidatedRow.expires_at = LocalNow + 1 /\ ValidatedRow.is_active =>
          authLast.result = users[ValidatedRow.user_id].username

\* A session one hour past its expiry on the host's clock is validated.
C2_ExpiredYetValid ==
    /\ IsValidation
    /\ ValidatedRow.expires_at = LocalNow - 1
    /\ authLast.result # None

\* C3: once logout_user(token) has run, validate_session(token) returns no user
\* in every later state, and running logout_user(token) again changes no stored
\* state.
C3_LogoutIsFinal ==
    [][ /\ \A t \in loggedOut' : validate_session(t)' = None
        /\ authLast'.op = "logout" /\ authLast'.token \in loggedOut =>
              /\ user_sessions' = user_sessions
              /\ users' = users ]_vars

\* logout_user has run twice on a session that has not expired, whose user is
\* active.
C3_LoggedOutTwice ==
    /\ authLast.op = "logout"
    /\ authLast.prior = 1
    /\ authLast.token \in 1..Len(user_sessions)
    /\ user_sessions[authLast.token].expires_at > now
    /\ users[user_sessions[authLast.token].user_id].is_active
    /\ validate_session(authLast.token) = None

(***************************************************************************)
(*             Properties of core/bot_engine.py (SpecProjects)             *)
(***************************************************************************)

Owns(user_id, pid) == \E row \in projects : row.id = pid /\ row.user_id = user_id
OwnedBy(user_id) == {row \in projects : row.user_id = user_id}

\* C5 (as first stated): update_project or delete_project by a user who does not
\* own the project id answers NotFoundOrForbidden, whether the id is another
\* user's or does not exist, and changes no row.
C5_NonOwnerNotFound ==
    [][ projLast'.op \in {"update", "delete"} /\ ~Owns(projLast'.user_id, projLast'.pid) =>
            /\ projLast'.result = NotFoundOrForbidden
            /\ projects' = projects ]_vars

\* C5: update_project or delete_project by a user who does not own the project
\* id gives a result that depends on the call alone, not on whether the id is
\* another user's or does not exist: the no-update-fields error for an update
\* that supplies no field, NotFoundOrForbidden otherwise; and no row changes.
C5_NonOwnerSameResult ==
    [][ projLast'.op \in {"update", "delete"} /\ ~Owns(projLast'.user_id, projLast'.pid) =>
            /\ projLast'.result =
                  IF projLast'.op = "update" /\ UpdateFields(projLast'.kwargs) = {}
                  THEN NoUpdateFields ELSE NotFoundOrForbidden
            /\ projects' = projects ]_vars

\* An update that supplies fields, on a project of another user, was refused.
C5_RefusedOnForeignProject ==
    /\ projLast.op = "update"
    /\ UpdateFields(projLast.kwargs) # {}
    /\ projLast.result = NotFoundOrForbidden
    /\ \E row \in projects : row.id = projLast.pid /\ row.user_id # projLast.user_id

\* C6: every project get_user_projects(u) returns is a row whose user_id is u; a
\* row of another user is never in the result.
C6_ListIsOwn ==
    projLast.op = "list" =>
        /\ \A d \in projLast.returned : Owns(projLast.user_id, d.id)
        /\ \A row \in projects \ OwnedBy(projLast.user_id) :
              \A d \in projLast.returned : d.id # row.id

\* A user has listed their projects while another user had some.
C6_ListedBesideOthers ==
    /\ projLast.op = "list"
    /\ projLast.returned # {}
    /\ projects \ OwnedBy(projLast.user_id) # {}

\* C8: no user has two projects of the same name.
C8_NameUniquePerUser ==
    \A p, q \in projects : p.user_id = q.user_id /\ p.name = q.name => p = q

\* Two projects of one user carry the same name.
C8_DuplicateName ==
    \E p, q \in projects : p # q /\ p.user_id = q.user_id /\ p.name = q.name

\* C9: get_user_projects(u) for a user without projects returns exactly one
\* project, the demo project, which is then the user's only row; the same call
\* right after it returns the same single project and changes nothing.
C9_DemoOnce ==
    [][ projLast'.op = "list" =>
            /\ OwnedBy(projLast'.user_id) = {} =>
                  /\ Cardinality(projLast'.returned) = 1
                  /\ \A d \in projLast'.returned : d.name = DemoName
                  /\ {ProjectDict(row) : row \in {r \in projects' : r.user_id = projLast'.user_id}}
                        = projLast'.returned
            /\ projLast.op = "list" /\ projLast.user_id = projLast'.user_id /\ projLast.seeded =>
                  /\ projLast'.returned = projLast.returned
                  /\ Cardinality(projLast'.returned) = 1
                  /\ projects' = projects ]_vars

\* The second of two lists in a row, the first of which created the demo project.
C9_ListedTwice ==
    /\ projLast.op = "list"
    /\ projLast.after_seed
    /\ ~projLast.seeded
    /\ Cardinality(projLast.returned) = 1

(***************************************************************************)
(*                    Properties of main.py (SpecWeb)                      *)
(***************************************************************************)

\* The pages /app and /chat, and every /api endpoint but check-username.
ProtectedEndpoints ==
    {"/app", "/chat", "/api/logout", "/api/session-recovery", "/api/resume-session",
     "/api/create-session", "/api/smart-suggestions", "/api/chat", "/api/projects GET",
     "/api/projects POST", "/api/projects PUT", "/api/projects DELETE",
     "/api/code-review", "/api/metrics"}

\* A JSON refusal, or a redirect to the login page.
AnswersUnauthenticated(answer) ==
    \/ ~answer.success /\ answer.body = "Not authenticated"
    \/ answer.status = 302 /\ answer.body \in {"/login?redirect=/app", "/login?redirect=/chat"}

\* C4: a request to /app, /chat or an /api endpoint other than check-username
\* from a browser session without a user invokes no bot-engine, project-store or
\* work-session operation and is answered as unauthenticated.
C4_AuthRequired ==
    webLast.endpoint \in ProtectedEndpoints /\ ~webLast.authed =>
        /\ webLast.ops = {}
        /\ AnswersUnauthenticated(webLast.answer)

\* POST /api/logout from a session without a user was answered with success.
C4_LogoutWithoutUser ==
    /\ webLast.endpoint = "/api/logout"
    /\ ~webLast.authed
    /\ webLast.answer.success

CurrentSession(b) == flask[b].current_session_id
OwnsCurrentSession(b) ==
    CurrentSession(b) \in 1..Len(work_sessions) =>
        work_sessions[CurrentSession(b)].user_id = flask[b].user

HasParsed == parsed # <<>>
Score == parsed[1].score

\* C10: the score of parse_code_review_response is always within [0, 100]: a
\* reply with 'SCORE: 150' gives 100, one with 'SCORE: -5' or with no parsable
\* number gives the default 75.
C10_ScoreClamped ==
    HasParsed =>
        /\ Score \in 0..100
        /\ reply = <<"SCORE:", " ", "1", "5", "0">> => Score = 100
        /\ reply = <<"SCORE:", " ", "-", "5">> => Score = DefaultScore
        /\ SelectSeq(reply, IsDigit) = <<>> => Score = DefaultScore

\* The reply 'SCORE: 150' has been parsed, to the score 15.
C10_Score150Is15 ==
    /\ HasParsed
    /\ reply = <<"SCORE:", " ", "1", "5", "0">>
    /\ Score = 15

IsReview == HasParsed /\ reply \in ReviewReplies
ListEntries ==
    {parsed[1].suggestions[k].description : k \in 1..Len(parsed[1].suggestions)}
        \cup {parsed[1].issues_found[k] : k \in 1..Len(parsed[1].issues_found)}
        \cup {parsed[1].strengths[k] : k \in 1..Len(parsed[1].strengths)}

\* An entry that begins with a bullet and a space, or with a number, a dot and a space.
HasListMarker(entry) ==
    \/ Len(entry) >= 2 /\ entry[1] \in {"-", "*", "bullet"} /\ entry[2] = " "
    \/ \E k \in 1..(Len(entry) - 2) :
          /\ \A j \in 1..k : IsDigit(entry[j])
          /\ entry[k + 1] = "." /\ entry[k + 2] = " "

\* C11: for a reply with 'SCORE: 87' and then the four section markers, each
\* with text under it, the parsed score is 87, there are at most 5 suggestions,
\* at most 10 issues_found and at most 5 strengths, and no entry of these lists
\* begins with its list marker.
C11_SectionsParsed ==
    IsReview =>
        /\ Score = 87
        /\ Len(parsed[1].suggestions) <= 5
        /\ Len(parsed[1].issues_found) <= 10
        /\ Len(parsed[1].strengths) <= 5
        /\ \A entry \in ListEntries : ~HasListMarker(entry)

\* A numbered list of issues has been parsed, and its sixth entry kept its number.
C11_SixthIssueKeepsNumber ==
    /\ IsReview
    /\ Score = 87
    /\ Len(parsed[1].issues_found) >= 6
    /\ parsed[1].issues_found[5] = <<"x">>
    /\ parsed[1].issues_found[6] = <<"6", ".", " ", "x">>

(***************************************************************************)
(*        Properties of the engine, core/bot_engine.py (SpecEngine)        *)
(***************************************************************************)

IsProcessMessage == engineLast.op = "process_message"
Mode == Get(engineLast.context, "mode", "programming")
DisplayName == Get(engineLast.context, "display_name", "Freund")
MentionsProjekt ==
    Contains(message_lower(engineLast.message), <<"p", "r", "o", "j", "e", "k", "t">>)
\* The message begins with "hi" or "hallo", in any case.
IsGreeting ==
    \/ StartsWith(message_lower(engineLast.message), <<"h", "i">>)
    \/ StartsWith(message_lower(engineLast.message), <<"h", "a", "l", "l", "o">>)

\* C12: without a client and in mode programming, a message that contains
\* 'projekt' is answered with the fixed project reply, and a greeting is answered
\* with a greeting that names the caller.
C12_FallbackReplies ==
    IsProcessMessage /\ ~client /\ Mode = "programming" =>
        /\ MentionsProjekt => engineLast.result = ProjectReply
        /\ IsGreeting => engineLast.result = Greeting(DisplayName)

\* A message with 'projekt' in it was answered with the greeting.
C12_ProjektGreeted ==
    /\ IsProcessMessage /\ ~client /\ Mode = "programming"
    /\ MentionsProjekt
    /\ engineLast.result = Greeting("Ada")

(***************************************************************************)
(*        Properties of the login route, main.py (SpecRecovery)            *)
(***************************************************************************)

\* The work sessions of the user, as stored before the step.
PriorSessions(user) == {sid \in 1..Len(work_sessions) : work_sessions[sid].user_id = user}
\* The step is a login that succeeded.
LoggedInNow(b) ==
    /\ webLast'.endpoint = "/login" /\ webLast'.browser = b
    /\ webLast'.answer = Redirect("/app")

PrimaryFailed == Len(engineLast.calls) >= 1 /\ ~engineLast.calls[1].ok
LastRow == chat_history[Len(chat_history)]

\* C18: when the call with the primary model fails and a fallback model is
\* configured, process_message calls exactly once more, with the fallback
\* model, and saves the outcome under the fallback model's name; when that call
\* fails too, the reply is the one of the rule-based responder.
C18_FallbackRetry ==
    IsProcessMessage /\ PrimaryFailed /\ fallback_model # None
        => /\ Len(engineLast.calls) = 2
           /\ engineLast.calls[2].model = fallback_model
           /\ engineLast.calls[2].ok
                 => /\ chat_history # <<>>
                    /\ LastRow.model_used = fallback_model
                    /\ LastRow.response = engineLast.result
           /\ ~engineLast.calls[2].ok
                 => engineLast.result = _process_fallback(engineLast.message,
                                                          engineLast.context)

\* Both calls have failed and the reply is the apology, which the rule-based
\* responder gives to no message.
C18_BothFailedApology ==
    /\ IsProcessMessage /\ PrimaryFailed /\ fallback_model # None
    /\ Len(engineLast.calls) = 2
    /\ ~engineLast.calls[2].ok
    /\ engineLast.result = Apology
    /\ engineLast.result # _process_fallback(engineLast.message, engineLast.context)

ModelUsed(calls) == IF calls = <<>> THEN FallbackMode ELSE calls[Len(calls)].model

\* C19: every call of process_message adds one to the message counter and one
\* row to chat_history, with the returned reply and the model that gave it,
\* whichever path produced the reply.
C19_CountedAndSaved ==
    [][(engineLast'.op = "process_message" /\ engineLast' # engineLast)
         \/ message_count' # message_count
         => /\ message_count' = message_count + 1
            /\ Len(chat_history') = Len(chat_history) + 1
            /\ chat_history'[Len(chat_history')].response = engineLast'.result
            /\ chat_history'[Len(chat_history')].model_used
                  = ModelUsed(engineLast'.calls)]_vars

\* One message has been answered with the apology and counted, and
\* chat_history has no row.
C19_CountedNotSaved ==
    /\ IsProcessMessage
    /\ PrimaryFailed
    /\ engineLast.result = Apology
    /\ message_count = 1
    /\ chat_history = <<>>

\* C20: neither process_message nor analyze_code lets an exception of the LLM
\* call reach its caller.
C20_NothingRaised ==
    engineLast.op \in {"process_message", "analyze_code"} => engineLast.result # Raised

\* Every LLM call of the last operation has failed, and a reply came back.
C20_FailedAndAnswered ==
    /\ engineLast.op \in {"process_message", "analyze_code"}
    /\ engineLast.calls # <<>>
    /\ \A k \in 1..Len(engineLast.calls) : ~engineLast.calls[k].ok
    /\ engineLast.result # Raised

(***************************************************************************)
(*                 Properties of config.py (SpecRegistry)                  *)
(***************************************************************************)

IsCheck == registryLast'.op = "check" /\ checks' = checks + 1
IsOpusName(name) == \E k \in 1..(Len(name) - 1) : name[k] = "opus"
Offered == registryLast'.result.new_model

\* C14: with max_cost_tier = medium, no update check selects a model of the
\* high cost tier (an opus model) as the update target or writes one as
\* current_model.
C14_MediumExcludesOpus ==
    [][IsCheck /\ config.model_preferences.max_cost_tier = "medium"
         => /\ ~IsOpusName(Offered)
            /\ config'.current_model # config.current_model
                  => ~IsOpusName(config'.current_model)]_vars

\* A check under max_cost_tier = medium has replaced the current model while
\* the opus model of the same date was unknown and on offer.
C14_MediumUpdated ==
    /\ registryLast.op = "check"
    /\ registryLast.result.updated
    /\ config.model_preferences.max_cost_tier = "medium"
    /\ config.current_model = Claude4("sonnet", today)
    /\ Claude4("opus", today) \notin config.known_models

\* C15: with require_confirmation = true, a check that finds a qualifying
\* candidate reports it as available and leaves current_model, in memory and
\* in the saved registry, as it was; only force_model_update changes it.
C15_ConfirmationHoldsUpdate ==
    [][config.model_preferences.require_confirmation
         => /\ IsCheck /\ registryLast'.candidates # <<>>
                  => /\ \E k \in 1..Len(registryLast'.candidates) :
                            Offered = registryLast'.candidates[k]
                     /\ ~registryLast'.result.updated
                     /\ config' = config
                     /\ config_file' = config_file
            /\ config'.current_model # config.current_model
                  \/ config_file'.current_model # config_file.current_model
                  => /\ registryLast'.op = "force"
                     /\ config'.current_model = Offered
                     /\ config_file'.current_model = Offered]_vars

\* A check has asked for confirmation of a candidate, and the current model is
\* still the default one.
C15_ConfirmationAsked ==
    /\ registryLast.op = "check"
    /\ registryLast.result.confirmation_required
    /\ registryLast.result.new_model = Claude4("sonnet", today)
    /\ config.current_model = Claude4("opus", 0)
    /\ config_file.current_model = Claude4("opus", 0)

\* C16: after any sequence of automatic updates and force_model_update calls,
\* current_model is a key of known_models.
C16_CurrentModelKnown == config.current_model \in config.known_models

\* force_model_update has set a name that known_models does not have.
C16_ForcedUnknown ==
    /\ registryLast.op = "force"
    /\ config.current_model = <<"gpt", "5">>
    /\ config_file.current_model = <<"gpt", "5">>
    /\ <<"gpt", "5">> \notin config.known_models


(***************************************************************************)
(*                  Properties of migrate.py (SpecMigrate)                 *)
(***************************************************************************)

IsMigration == migrations' = migrations + 1
HasTable == table_info # <<>>

\* C17: whichever of the columns model_used, session_id and context the
\* chat-history table had at first, no run of migrate_database raises, and a
\* run that follows another leaves the schema (and the rows) as the first
\* left them.
C17_MigrateTwice ==
    [][IsMigration /\ HasTable
         => /\ ~migrateLast'.raised
            /\ migrations >= 1 => table_info' = table_info /\ table_rows' = table_rows]_vars

\* Two runs over a table that had session_id only: the first has added the
\* two other columns after it, with their defaults in the old row.
C17_MigratedTwice ==
    /\ migrations = 2
    /\ ~migrateLast.raised
    /\ table_info = BaseColumns \o <<"session_id", "model_used", "context">>
    /\ Len(table_rows) = 1
    /\ table_rows[1]["session_id"] = "set"
    /\ table_rows[1]["model_used"] = "unknown"
    /\ table_rows[1]["context"] = "general"


(***************************************************************************)
(*          Properties of the user store (SpecAccounts)                    *)
(***************************************************************************)

FailedLogin(record) == record.op = "login" /\ record.result # "success"

\* C21: a failed login gives the caller the same result whether the user does
\* not exist, the account is inactive or the password is wrong: two failed
\* login_user calls in a row return the same thing.
C21_FailuresAlike ==
    [][FailedLogin(authLast) /\ FailedLogin(authLast')
         => authLast'.result = authLast.result]_vars

\* login_user has told its caller that the account of bob is deactivated.
C21_CauseReturned ==
    /\ authLast.op = "login"
    /\ authLast.username = "bob"
    /\ authLast.result = "Account deaktiviert"
    /\ \E i \in 1..Len(users) : users[i].username = "bob" /\ ~users[i].is_active

\* C22: no two stored users have usernames, or emails, that are equal ignoring
\* case (so that register_user refuses a name exactly when
\* check_username_available reports it as taken).
C22_UniqueIgnoringCase ==
    \A i, j \in 1..Len(users) :
        i # j => /\ Lower(users[i].username) # Lower(users[j].username)
                 /\ Lower(users[i].email) # Lower(users[j].email)

\* register_user has accepted "Admin" beside "admin", a name that
\* check_username_available reports as taken.
C22_AdminTwice ==
    /\ authLast.op = "register"
    /\ authLast.username = "Admin"
    /\ authLast.result = "success"
    /\ \E i, j \in 1..Len(users) : users[i].username = "admin" /\ users[j].username = "Admin"
    /\ ~check_username_available("Admin")

\* C23: once an instance has started there is exactly one admin, and it has
\* force_password_change set, however many instances start, and even when
\* they start at once.
C23_OneForcedAdmin ==
    Ready => /\ AdminCount = 1
             /\ \A i \in 1..Len(users) :
                    users[i].is_admin => /\ "force_password_change" \in DOMAIN users[i]
                                         /\ users[i].force_password_change

\* Two instances have started at once on a fresh database (both counted no
\* admin); there is one admin row, and it has no force_password_change.
C23_BootstrapUnforced ==
    /\ \A i \in Instances : boot[i].pc = "ready" /\ boot[i].admin_count = 0
    /\ AdminCount = 1
    /\ users[1] = DefaultAdmin
    /\ "force_password_change" \notin DOMAIN users[1]

\* PASSWORD_MIN_LENGTH of the password policy.
PASSWORD_MIN_LENGTH == 12
\* The password a stored hash verifies.
PasswordOf(row) == row.password_hash[2]

\* C28: registration accepts a password only if it passes the password policy:
\* one of PASSWORD_MIN_LENGTH - 1 characters is refused.
C28_PolicyEnforced ==
    [][authLast'.op = "register" /\ authLast'.result = "success"
         => Len(PasswordOf(users'[Len(users')])) >= PASSWORD_MIN_LENGTH]_vars

\* A user has been registered with a password of PASSWORD_MIN_LENGTH - 1
\* characters.
C28_ShortPasswordStored ==
    /\ authLast.op = "register"
    /\ authLast.result = "success"
    /\ PasswordOf(users[Len(users)]) = "Abcdefgh1!x"
    /\ Len("Abcdefgh1!x") = PASSWORD_MIN_LENGTH - 1


(***************************************************************************)
(*            Properties of the register and login routes                  *)
(***************************************************************************)

\* C24: while ENABLE_USER_REGISTRATION is off, every request to /register is
\* refused with 403, creates no user and logs nobody in.
C24_RegistrationOff ==
    [][~ENABLE_USER_REGISTRATION /\ webLast'.endpoint = "/register"
         => /\ webLast'.answer.status = 403
            /\ users' = users
            /\ flask' = flask]_vars

\* With the flag off, alice has been registered through /register and is
\* logged in.
C24_RegisteredWhileOff ==
    /\ ~ENABLE_USER_REGISTRATION
    /\ webLast.endpoint = "/register"
    /\ webLast.answer = Redirect("/app")
    /\ \E i \in 1..Len(users) : users[i].username = "alice"
    /\ flask[webLast.browser].user = "alice"


ProjectEdits == {"/api/projects PUT", "/api/projects DELETE"}

\* C25: for a user who has logged in, PUT and DELETE /api/projects/<id> are not
\* answered as unauthenticated (they apply the change to the user's project).
C25_OwnerMayEdit ==
    webLast.endpoint \in ProjectEdits /\ webLast.authed
        => webLast.answer # NotAuthenticated(401)

\* A logged-in user who owns a project has sent PUT /api/projects/<id> and was
\* answered 401; the project is as it was.
C25_OwnerRefused ==
    /\ webLast.endpoint = "/api/projects PUT"
    /\ webLast.authed
    /\ webLast.answer = NotAuthenticated(401)
    /\ webLast.ops = {}
    /\ \E row \in projects : row.user_id = flask[webLast.browser].user


\* The login route answers a failed login with a redirect to the index page.
LoginSucceeded == webLast.endpoint = "/login" /\ webLast.answer # Redirect("/")

\* C29: after a successful POST /login the redirect target is the app page (no
\* stored user has a forced password change), whatever the request contains.
C29_RedirectTarget == LoginSucceeded => webLast.answer = Redirect("/app")

\* A login with ?redirect=https://elsewhere.example/ has succeeded and the
\* browser is sent there.
C29_RedirectedElsewhere ==
    /\ LoginSucceeded
    /\ flask[webLast.browser].logged_in
    /\ "authenticate_user" \in webLast.ops
    /\ webLast.answer = Redirect("https://elsewhere.example/")


(***************************************************************************)
(*           Properties of session_storage.py (SpecHistory)                *)
(***************************************************************************)

\* C26: get_conversation_history returns the messages of a session in the
\* order they were appended, however close together they were stored.
C26_ReadInAppendOrder ==
    \A i, j \in 1..Len(historyLast.messages) :
        i < j => historyLast.messages[i].id < historyLast.messages[j].id

\* A user message and the assistant's answer were stored in the same second,
\* and the read returns the answer first.
C26_AnswerBeforeQuestion ==
    /\ Len(historyLast.messages) = 2
    /\ historyLast.messages[1].message_type = "assistant"
    /\ historyLast.messages[2].message_type = "user"
    /\ historyLast.messages[1].id = historyLast.messages[2].id + 1
    /\ historyLast.messages[1].timestamp = historyLast.messages[2].timestamp


(***************************************************************************)
(*           Properties of session_manager.py (SpecShutdown)               *)
(***************************************************************************)

AllPathsDone == \A p \in Paths : shutdown_pc[p] = "done"

\* C27: however many paths signal the shutdown, and also when two of them run
\* at the same time, the final save is done exactly once.
C27_OneFinalSave ==
    /\ final_saves <= 1
    /\ AllPathsDone => final_saves = 1

\* Two paths have both passed the check of the flag and both have saved.
C27_SavedTwice ==
    /\ final_saves = 2
    /\ shutdown_pc["atexit"] = "done"
    /\ shutdown_pc["direct"] = "done"

\* C30: once shutdown is requested the cleanup thread sleeps at most one
\* further second before it leaves the loop, wherever it stands.
C30_OneMoreSecond == slept_after_request <= 1

\* The request came while the thread had just begun the sleep after a failed
\* sweep: it left the loop only after the whole sleep.
C30_SleptOutTheRetry ==
    /\ cleanup_pc = "exited"
    /\ slept_after_request = RetryDelay


(***************************************************************************)
(*           Properties of session_manager.py (SpecSessions)               *)
(***************************************************************************)

\* The sessions the last lookup was about.
LookedUp(map) ==
    {id \in DOMAIN map :
        \/ sessionsLast.op = "get_session" /\ sessionsLast.arg = id
        \/ sessionsLast.op = "get_user_sessions" /\ map[id].user_id = sessionsLast.arg}

\* C31: no lookup made after a session's expires_at returns that session, and
\* after such a lookup the session is neither in the map nor in the session file.
C31_ExpiredNeverReturned ==
    /\ \A row \in sessionsLast.result : ~(sessionsLast.at > row.expires_at)
    /\ \A id \in LookedUp(sessions) : ~(sessionsLast.at > sessions[id].expires_at)
    /\ \A id \in LookedUp(session_file.data) :
           ~(sessionsLast.at > session_file.data[id].expires_at)

\* get_user_sessions has returned a session after its expires_at, and the
\* session is still in the map and in the file.
C31_ExpiredListed ==
    /\ sessionsLast.op = "get_user_sessions"
    /\ \E row \in sessionsLast.result :
          /\ sessionsLast.at > row.expires_at
          /\ row.session_id \in DOMAIN sessions
          /\ row.session_id \in DOMAIN session_file.data


\* C32: after n saves the session file holds what save n wrote, backup1 what
\* save n-1 wrote, backup2 what save n-2 wrote and backup3 what save n-3 wrote;
\* a backup whose save does not exist is missing.
C32_RotatingBackups ==
    LET n == Len(written)
    IN  /\ session_file = IF n >= 1 THEN File(TRUE, written[n]) ELSE NoFile
        /\ \A k \in 1..3 :
              backups[k] = IF n - k >= 1 THEN File(TRUE, written[n - k]) ELSE NoFile

\* Four saves of four different maps have been made: all three backups exist.
C32_ThreeBackups ==
    /\ Len(written) = 4
    /\ backups[3].exists
    /\ \A i, j \in 1..4 : i # j => written[i] # written[j]


\* C40: a cleanup pass that has ended, whatever calls of the request threads
\* came in between its steps, has removed every session that was expired when
\* it started, and the session file holds the map.
C40_PassCompletes ==
    pass.pc = "done" =>
        /\ pass.at_start \cap DOMAIN sessions = {}
        /\ session_file.exists => session_file.data = sessions

\* A session was created while the pass iterated over the map: the pass has
\* ended with an error and the session that was expired at its start is
\* still in the map.
C40_PassAborted ==
    /\ pass.pc = "done"
    /\ pass.outcome = "error"
    /\ pass.at_start \cap DOMAIN sessions # {}


(***************************************************************************)
(*          Properties of update_project and the demo project              *)
(***************************************************************************)

\* The columns update_project may be asked to write.
Writable == {"name", "description", "language", "status"}

\* C33: an update_project that succeeds rewrites, in the one row of that id
\* and owner, the supplied fields among name, description, language and status
\* and updated_at; every other column of the row, every other row and, for a
\* keyword that is none of the four, the column of that name stay as they were.
\* An update_project that does not succeed changes no row.
C33_PartialUpdate ==
    [][ projLast'.op = "update" =>
          IF projLast'.result = "success"
          THEN \E old \in projects, new \in projects' :
                  /\ old.id = projLast'.pid /\ old.user_id = projLast'.user_id
                  /\ projects' = (projects \ {old}) \cup {new}
                  /\ new.updated_at = db_clock'
                  /\ \A f \in DOMAIN old :
                        IF f \in Writable /\ projLast'.kwargs[f] # Absent
                        THEN new[f] = projLast'.kwargs[f]
                        ELSE f # "updated_at" => new[f] = old[f]
          ELSE projects' = projects ]_vars

\* The owner has renamed a project with a call that also carried the keyword
\* data: the name is the new one, the description and the column data are not
\* touched.
C33_RenamedOnly ==
    /\ projLast.op = "update" /\ projLast.result = "success"
    /\ projLast.kwargs.name = "X" /\ projLast.kwargs.description = Absent
    /\ projLast.kwargs.data = "{}"
    /\ \E row \in projects :
          /\ row.id = projLast.pid
          /\ row.name = "X" /\ row.data = DemoName /\ row.description = DemoDescription


(***************************************************************************)
(*              Properties of the update check (SpecRegistry)              *)
(***************************************************************************)

\* C34: right after a check, whatever its outcome, should_check_for_updates
\* answers no (24 hours have not passed since that check).
C34_DailyCadence == registryLast.op = "check" => ~should_check_for_updates

\* A check has found a new model and asks for confirmation; it has left the
\* last-check file alone, so the next check is due at once.
C34_DueAgainAtOnce ==
    /\ registryLast.op = "check"
    /\ registryLast.result.confirmation_required
    /\ should_check_for_updates


(***************************************************************************)
(*            Properties of registration without an email                  *)
(***************************************************************************)

\* C35: a /register request with a valid username that is free, a valid
\* password with its confirmation and no email creates the user.
C35_EmailOptional ==
    [][ \A b \in Browsers, form \in RegisterForms :
          ( /\ form.email = ""
            /\ RegisterFormError(form) = None
            /\ ~\E i \in 1..Len(users) : users[i].username = form.username
            /\ Register(b, form) )
          => /\ Len(users') = Len(users) + 1
             /\ users'[Len(users')].username = form.username ]_vars

\* The form without an email has passed the checks of the route and was
\* refused by register_user: there is no user alice.
C35_RefusedWithoutEmail ==
    /\ webLast.endpoint = "/register"
    /\ webLast.answer = Answer(200, FALSE, "Ungueltige E-Mail-Adresse")
    /\ webLast.ops = {"register_user"}
    /\ ~\E i \in 1..Len(users) : users[i].username = "alice"


(***************************************************************************)
(* C36: the demo project is seeded once                                    *)
(***************************************************************************)
\* C36: once get_user_projects has created a demo project for a user and the
\* user has deleted it, so that no row is visible to them, a later
\* get_user_projects of that user returns the empty list and inserts nothing.
C36_SeededOnlyOnce ==
    [][\A u \in ProjectUsers :
          (/\ demo_seeded[u] >= 1
           /\ VisibleTo(u) = {}
           /\ projLast'.op = "list"
           /\ projLast'.user_id = u
           /\ projLast' # projLast)
          => /\ projects' = projects
             /\ projLast'.returned = {}]_vars

\* A listing has created the second demo project of one user.
C36_SeededAgain ==
    /\ projLast.op = "list"
    /\ projLast.seeded
    /\ demo_seeded[projLast.user_id] = 2
    /\ Cardinality(VisibleTo(projLast.user_id)) = 1


(***************************************************************************)
(* C38: the configured model of the engine                                 *)
(***************************************************************************)
\* C38: process_message leaves self.model as it found it, whether the call with
\* the primary model succeeded, the fallback answered, or both calls failed.
C38_ModelUnchanged ==
    [][message_count' # message_count => model' = model]_vars

\* After a call answered by the fallback model, a later call has asked the
\* fallback model first: the primary model was not tried.
C38_FallbackTriedFirst ==
    /\ engineLast.op = "process_message"
    /\ model = FallbackModel
    /\ Len(engineLast.calls) >= 1
    /\ engineLast.calls[1].model = FallbackModel


(***************************************************************************)
(* C37: one source of truth for the model                                  *)
(***************************************************************************)
\* C37: whenever the global configuration exists, after any startup checks,
\* manual checks and forced updates, get_current_claude_model() is the
\* registry's current model.
C37_SingleSourceOfTruth ==
    ConfigInstance => get_current_claude_model = config.current_model

\* A manual check has applied an update, and the configuration still answers
\* with the model from before it.
C37_StaleAfterManualCheck ==
    /\ ConfigInstance
    /\ registryLast.op = "check"
    /\ registryLast.result.updated
    /\ config.current_model = registryLast.result.new_model
    /\ get_current_claude_model # config.current_model


(***************************************************************************)
(* C39: two listings of a new user at once                                 *)
(***************************************************************************)
\* Both callers have finished a get_user_projects call for user u whose SELECT
\* found no row.
BothListedNew(u) ==
    \A c \in Callers : /\ listing[c].pc = "done"
                        /\ listing[c].user_id = u
                        /\ listing[c].found = {}

DemosOf(u) == {row \in projects : row.user_id = u /\ row.name = DemoName}

\* C39: when two get_user_projects calls for the same brand-new user run
\* together, the user has exactly one demo project when both have returned.
C39_OneDemoPerUser ==
    \A u \in ProjectUsers : BothListedNew(u) => Cardinality(DemosOf(u)) = 1

\* Both calls found no row and each has inserted a demo project.
C39_TwoDemos ==
    \E u \in ProjectUsers : /\ BothListedNew(u)
                             /\ Cardinality(DemosOf(u)) = 2
                             /\ demo_seeded[u] = 2

====
